---- MODULE Spec2Model ----
(***************************************************************************)
(* A model of the dnstt server's DNS carrier: responseFor (the DNS query   *)
(* state machine), nextPacket (the upstream packet reader), recvLoop and   *)
(* sendLoop (the two goroutines started by loop) and the response channel  *)
(* between them.                                                           *)
(*                                                                         *)
(* Bytes are integers 0..255, byte strings are sequences of bytes, a DNS   *)
(* name is a sequence of labels (byte strings).  A DNS message is a record *)
(* with the fields of dns.Message that the server reads or writes.         *)
(***************************************************************************)
EXTENDS Integers, Sequences, FiniteSets, TLC

(***************************************************************************)
(* Program constants.                                                      *)
(***************************************************************************)
\* const responseTTL = 60
responseTTL == 60

\* A variant of maxUDPPayload: what fits the smallest datagram every IPv4
\* host accepts.
smallUDPPayload == 576 - 40 - 8

\* const maxUDPPayload = 1280 - 40 - 8
maxUDPPayload == 1280 - 40 - 8

\* const maxEncodedPayload = 930
maxEncodedPayload == 930

\* const maxResponseDelay = 1 * time.Second; the model's unit of time is
\* one second.
maxResponseDelay == 1

\* ch := make(chan *record, 100)
chanCap == 100

\* len(turbotunnel.ClientID{}): the ClientID is an 8-byte array.
clientIDLen == 8

\* Constants of package dns (RFC 1035, RFC 6891).
RRTypeTXT == 16

RRTypeOPT == 41

RcodeNoError == 0

RcodeFormatError == 1

RcodeNameError == 3

RcodeNotImplemented == 4

ExtendedRcodeBadVers == 16

(***************************************************************************)
(* Bit operations on unsigned integers, as Go computes them.               *)
(***************************************************************************)
RECURSIVE BitAnd(_, _)
BitAnd(a, b) ==
    IF a = 0 \/ b = 0 THEN 0
    ELSE (IF a % 2 = 1 /\ b % 2 = 1 THEN 1 ELSE 0) + 2 * BitAnd(a \div 2, b \div 2)

RECURSIVE BitOr(_, _)
BitOr(a, b) ==
    IF a = 0 THEN b
    ELSE IF b = 0 THEN a
    ELSE (IF a % 2 = 1 \/ b % 2 = 1 THEN 1 ELSE 0) + 2 * BitOr(a \div 2, b \div 2)

\* x >> n
Shr(x, n) == x \div (2 ^ n)

\* x << n, for operands whose result fits the integer's width
Shl(x, n) == x * (2 ^ n)

(***************************************************************************)
(* Byte strings.                                                           *)
(***************************************************************************)
\* bytes.Join(prefix, nil): the labels concatenated.
RECURSIVE Join(_)
Join(labels) ==
    IF labels = <<>> THEN <<>> ELSE Head(labels) \o Join(Tail(labels))

UpperByte(b) == IF b >= 97 /\ b <= 122 THEN b - 32 ELSE b

LowerByte(b) == IF b >= 65 /\ b <= 90 THEN b + 32 ELSE b

\* utf8.RuneError, which stands for a byte that is not part of a
\* well-formed UTF-8 sequence.
RuneError == 65533

\* Whether b can follow the first byte b0 of a UTF-8 sequence of more than
\* one byte (utf8.acceptRanges).
SecondByteOK(b0, b) ==
    IF b0 = 224 THEN b >= 160 /\ b <= 191
    ELSE IF b0 = 237 THEN b >= 128 /\ b <= 159
    ELSE IF b0 = 240 THEN b >= 144 /\ b <= 191
    ELSE IF b0 = 244 THEN b >= 128 /\ b <= 143
    ELSE b >= 128 /\ b <= 191

\* utf8.DecodeRune(s), s not empty: the first rune of s and the number of
\* bytes it takes; RuneError and 1 for a byte that starts no well-formed
\* sequence.
DecodeRune(s) ==
    LET n == Len(s)
        c(i) == s[i] >= 128 /\ s[i] <= 191
        x(i) == s[i] - 128
    IN  IF s[1] < 128 THEN [r |-> s[1], size |-> 1]
        ELSE IF s[1] >= 194 /\ s[1] <= 223 /\ n >= 2 /\ SecondByteOK(s[1], s[2])
        THEN [r |-> ((s[1] - 192) * 64) + x(2), size |-> 2]
        ELSE IF s[1] >= 224 /\ s[1] <= 239 /\ n >= 3 /\ SecondByteOK(s[1], s[2])
                /\ c(3)
        THEN [r |-> ((s[1] - 224) * 4096) + (x(2) * 64) + x(3), size |-> 3]
        ELSE IF s[1] >= 240 /\ s[1] <= 244 /\ n >= 4 /\ SecondByteOK(s[1], s[2])
                /\ c(3) /\ c(4)
        THEN [r |-> ((s[1] - 240) * 262144) + (x(2) * 4096) + (x(3) * 64) + x(4),
              size |-> 4]
        ELSE [r |-> RuneError, size |-> 1]

\* utf8.AppendRune: the UTF-8 bytes of a rune.
EncodeRune(r) ==
    IF r < 128 THEN <<r>>
    ELSE IF r < 2048 THEN <<192 + (r \div 64), 128 + (r % 64)>>
    ELSE IF r < 65536
    THEN <<224 + (r \div 4096), 128 + ((r \div 64) % 64), 128 + (r % 64)>>
    ELSE <<240 + (r \div 262144), 128 + ((r \div 4096) % 64),
           128 + ((r \div 64) % 64), 128 + (r % 64)>>

\* unicode.CaseRanges, the upper-case column (Unicode 13.0.0): each entry
\* <<lo, hi, stride, delta>> says that the runes lo, lo + stride, ..., hi
\* have the upper case rune + delta.  These are the simple case mappings:
\* U+00DF, sharp s, has none, U+0131, dotless i, gives 'I', U+017F, long
\* s, gives 'S', U+03B1 gives U+0391.  No rune is in two entries.
UpperRanges == {
    <<97, 122, 1, -32>>, <<181, 181, 1, 743>>, <<224, 246, 1, -32>>,
    <<248, 254, 1, -32>>, <<255, 255, 1, 121>>, <<257, 303, 2, -1>>,
    <<305, 305, 1, -232>>, <<307, 311, 2, -1>>, <<314, 328, 2, -1>>,
    <<331, 375, 2, -1>>, <<378, 382, 2, -1>>, <<383, 383, 1, -300>>,
    <<384, 384, 1, 195>>, <<387, 389, 2, -1>>, <<392, 392, 1, -1>>,
    <<396, 396, 1, -1>>, <<402, 402, 1, -1>>, <<405, 405, 1, 97>>,
    <<409, 409, 1, -1>>, <<410, 410, 1, 163>>, <<414, 414, 1, 130>>,
    <<417, 421, 2, -1>>, <<424, 424, 1, -1>>, <<429, 429, 1, -1>>,
    <<432, 432, 1, -1>>, <<436, 438, 2, -1>>, <<441, 441, 1, -1>>,
    <<445, 445, 1, -1>>, <<447, 447, 1, 56>>, <<453, 453, 1, -1>>,
    <<454, 454, 1, -2>>, <<456, 456, 1, -1>>, <<457, 457, 1, -2>>,
    <<459, 459, 1, -1>>, <<460, 460, 1, -2>>, <<462, 476, 2, -1>>,
    <<477, 477, 1, -79>>, <<479, 495, 2, -1>>, <<498, 498, 1, -1>>,
    <<499, 499, 1, -2>>, <<501, 501, 1, -1>>, <<505, 543, 2, -1>>,
    <<547, 563, 2, -1>>, <<572, 572, 1, -1>>, <<575, 576, 1, 10815>>,
    <<578, 578, 1, -1>>, <<583, 591, 2, -1>>, <<592, 592, 1, 10783>>,
    <<593, 593, 1, 10780>>, <<594, 594, 1, 10782>>, <<595, 595, 1, -210>>,
    <<596, 596, 1, -206>>, <<598, 599, 1, -205>>, <<601, 601, 1, -202>>,
    <<603, 603, 1, -203>>, <<604, 604, 1, 42319>>, <<608, 608, 1, -205>>,
    <<609, 609, 1, 42315>>, <<611, 611, 1, -207>>, <<613, 613, 1, 42280>>,
    <<614, 614, 1, 42308>>, <<616, 616, 1, -209>>, <<617, 617, 1, -211>>,
    <<618, 618, 1, 42308>>, <<619, 619, 1, 10743>>, <<620, 620, 1, 42305>>,
    <<623, 623, 1, -211>>, <<625, 625, 1, 10749>>, <<626, 626, 1, -213>>,
    <<629, 629, 1, -214>>, <<637, 637, 1, 10727>>, <<640, 640, 1, -218>>,
    <<642, 642, 1, 42307>>, <<643, 643, 1, -218>>, <<647, 647, 1, 42282>>,
    <<648, 648, 1, -218>>, <<649, 649, 1, -69>>, <<650, 651, 1, -217>>,
    <<652, 652, 1, -71>>, <<658, 658, 1, -219>>, <<669, 669, 1, 42261>>,
    <<670, 670, 1, 42258>>, <<837, 837, 1, 84>>, <<881, 883, 2, -1>>,
    <<887, 887, 1, -1>>, <<891, 893, 1, 130>>, <<940, 940, 1, -38>>,
    <<941, 943, 1, -37>>, <<945, 961, 1, -32>>, <<962, 962, 1, -31>>,
    <<963, 971, 1, -32>>, <<972, 972, 1, -64>>, <<973, 974, 1, -63>>,
    <<976, 976, 1, -62>>, <<977, 977, 1, -57>>, <<981, 981, 1, -47>>,
    <<982, 982, 1, -54>>, <<983, 983, 1, -8>>, <<985, 1007, 2, -1>>,
    <<1008, 1008, 1, -86>>, <<1009, 1009, 1, -80>>, <<1010, 1010, 1, 7>>,
    <<1011, 1011, 1, -116>>, <<1013, 1013, 1, -96>>, <<1016, 1016, 1, -1>>,
    <<1019, 1019, 1, -1>>, <<1072, 1103, 1, -32>>, <<1104, 1119, 1, -80>>,
    <<1121, 1153, 2, -1>>, <<1163, 1215, 2, -1>>, <<1218, 1230, 2, -1>>,
    <<1231, 1231, 1, -15>>, <<1233, 1327, 2, -1>>, <<1377, 1414, 1, -48>>,
    <<4304, 4346, 1, 3008>>, <<4349, 4351, 1, 3008>>,
    <<5112, 5117, 1, -8>>, <<7296, 7296, 1, -6254>>,
    <<7297, 7297, 1, -6253>>, <<7298, 7298, 1, -6244>>,
    <<7299, 7300, 1, -6242>>, <<7301, 7301, 1, -6243>>,
    <<7302, 7302, 1, -6236>>, <<7303, 7303, 1, -6181>>,
    <<7304, 7304, 1, 35266>>, <<7545, 7545, 1, 35332>>,
    <<7549, 7549, 1, 3814>>, <<7566, 7566, 1, 35384>>,
    <<7681, 7829, 2, -1>>, <<7835, 7835, 1, -59>>, <<7841, 7935, 2, -1>>,
    <<7936, 7943, 1, 8>>, <<7952, 7957, 1, 8>>, <<7968, 7975, 1, 8>>,
    <<7984, 7991, 1, 8>>, <<8000, 8005, 1, 8>>, <<8017, 8023, 2, 8>>,
    <<8032, 8039, 1, 8>>, <<8048, 8049, 1, 74>>, <<8050, 8053, 1, 86>>,
    <<8054, 8055, 1, 100>>, <<8056, 8057, 1, 128>>, <<8058, 8059, 1, 112>>,
    <<8060, 8061, 1, 126>>, <<8064, 8071, 1, 8>>, <<8080, 8087, 1, 8>>,
    <<8096, 8103, 1, 8>>, <<8112, 8113, 1, 8>>, <<8115, 8115, 1, 9>>,
    <<8126, 8126, 1, -7205>>, <<8131, 8131, 1, 9>>, <<8144, 8145, 1, 8>>,
    <<8160, 8161, 1, 8>>, <<8165, 8165, 1, 7>>, <<8179, 8179, 1, 9>>,
    <<8526, 8526, 1, -28>>, <<8560, 8575, 1, -16>>, <<8580, 8580, 1, -1>>,
    <<9424, 9449, 1, -26>>, <<11312, 11358, 1, -48>>,
    <<11361, 11361, 1, -1>>, <<11365, 11365, 1, -10795>>,
    <<11366, 11366, 1, -10792>>, <<11368, 11372, 2, -1>>,
    <<11379, 11379, 1, -1>>, <<11382, 11382, 1, -1>>,
    <<11393, 11491, 2, -1>>, <<11500, 11502, 2, -1>>,
    <<11507, 11507, 1, -1>>, <<11520, 11557, 1, -7264>>,
    <<11559, 11559, 1, -7264>>, <<11565, 11565, 1, -7264>>,
    <<42561, 42605, 2, -1>>, <<42625, 42651, 2, -1>>,
    <<42787, 42799, 2, -1>>, <<42803, 42863, 2, -1>>,
    <<42874, 42876, 2, -1>>, <<42879, 42887, 2, -1>>,
    <<42892, 42892, 1, -1>>, <<42897, 42899, 2, -1>>,
    <<42900, 42900, 1, 48>>, <<42903, 42921, 2, -1>>,
    <<42933, 42943, 2, -1>>, <<42947, 42947, 1, -1>>,
    <<42952, 42954, 2, -1>>, <<42998, 42998, 1, -1>>,
    <<43859, 43859, 1, -928>>, <<43888, 43967, 1, -38864>>,
    <<65345, 65370, 1, -32>>, <<66600, 66639, 1, -40>>,
    <<66776, 66811, 1, -40>>, <<68800, 68850, 1, -64>>,
    <<71872, 71903, 1, -32>>, <<93792, 93823, 1, -32>>,
    <<125218, 125251, 1, -34>> }

\* unicode.ToUpper: the upper case of the rune when unicode.CaseRanges has
\* one, else the rune itself.
UnicodeToUpper(r) ==
    LET hit == {g \in UpperRanges :
                  r >= g[1] /\ r <= g[2] /\ (r - g[1]) % g[3] = 0}
    IN  IF hit = {} THEN r ELSE r + (CHOOSE g \in hit : TRUE)[4]

\* bytes.Map(unicode.ToUpper, s): s is read rune by rune and the upper
\* case of each rune is written in UTF-8; a byte that is not part of a
\* well-formed sequence is written as U+FFFD.
RECURSIVE MapToUpper(_)
MapToUpper(s) ==
    IF s = <<>> THEN <<>>
    ELSE LET d == DecodeRune(s)
         IN  EncodeRune(UnicodeToUpper(d.r)) \o MapToUpper(SubSeq(s, d.size + 1, Len(s)))

\* bytes.ToUpper: byte by byte when every byte is ASCII, else rune by
\* rune.
ToUpper(s) ==
    IF \A i \in 1..Len(s) : s[i] < 128
    THEN [i \in 1..Len(s) |-> UpperByte(s[i])]
    ELSE MapToUpper(s)

\* bytes.ToLower as dns.Name.TrimSuffix uses it, to compare a label with
\* a label of the domain: byte by byte.  The labels of the domain are
\* ASCII without i or k, the only letters that are the lower case of a
\* rune above U+007F, so that a label with such a byte equals none of them
\* either way.
ToLower(s) == [i \in 1..Len(s) |-> LowerByte(s[i])]

\* A byte string of n bytes b.
Repeat(b, n) == [i \in 1..n |-> b]

(***************************************************************************)
(* encoding/base32, StdEncoding.WithPadding(NoPadding).Decode.             *)
(***************************************************************************)
\* decodeMap of the standard alphabet "A..Z2..7"; 255 is "not in alphabet".
B32Value(c) ==
    IF c >= 65 /\ c <= 90 THEN c - 65
    ELSE IF c >= 50 /\ c <= 55 THEN c - 50 + 26
    ELSE 255

\* stripNewlines: Decode ignores '\r' and '\n'.
StripNewlines(s) == SelectSeq(s, LAMBDA c : c # 10 /\ c # 13)

\* One quantum of up to 8 characters (all in the alphabet): the bytes it
\* yields.  A final quantum of 2, 4, 5 or 7 characters yields 1, 2, 3 or 4
\* bytes; one of 1, 3 or 6 characters yields nothing.
B32Quantum(q) ==
    LET d(j) == IF j <= Len(q) THEN B32Value(q[j]) ELSE 0
        b0 == (d(1) * 8 + (d(2) \div 4)) % 256
        b1 == (d(2) * 64 + d(3) * 2 + (d(4) \div 16)) % 256
        b2 == (d(4) * 16 + (d(5) \div 2)) % 256
        b3 == (d(5) * 128 + d(6) * 4 + (d(7) \div 8)) % 256
        b4 == (d(7) * 32 + d(8)) % 256
        n  == Len(q)
    IN  IF n = 8 THEN <<b0, b1, b2, b3, b4>>
        ELSE IF n = 7 THEN <<b0, b1, b2, b3>>
        ELSE IF n = 5 THEN <<b0, b1, b2>>
        ELSE IF n = 4 THEN <<b0, b1>>
        ELSE IF n = 2 THEN <<b0>>
        ELSE <<>>

RECURSIVE B32Quanta(_)
B32Quanta(s) ==
    IF s = <<>> THEN <<>>
    ELSE IF Len(s) <= 8 THEN B32Quantum(s)
    ELSE B32Quantum(SubSeq(s, 1, 8)) \o B32Quanta(SubSeq(s, 9, Len(s)))

\* base32Encoding.Decode(payload, encoded) followed by payload[:n]:
\* err is TRUE for a CorruptInputError.
Base32Decode(encoded) ==
    LET s == StripNewlines(encoded)
    IN  IF \E i \in 1..Len(s) : B32Value(s[i]) = 255
        THEN [err |-> TRUE, out |-> <<>>]
        ELSE [err |-> FALSE, out |-> B32Quanta(s)]

(***************************************************************************)
(* nextPacket: the reader of the upstream packet framing.                  *)
(***************************************************************************)
\* A variant of nextPacket that returns the error of io.CopyN as it is:
\* io.EOF when the padding is cut short.
\*
\* nextPacket(r), r a reader with the bytes s left: the packet p (the empty
\* string stands for the nil slice), the error ("nil", "EOF" or
\* "UnexpectedEOF") and the bytes left in the reader.  A packet body cut
\* short is returned as the buffer io.ReadFull filled in part, with the
\* error.
RECURSIVE nextPacketPlainEOF(_)
nextPacketPlainEOF(s) ==
    IF s = <<>> THEN [p |-> <<>>, err |-> "EOF", rest |-> <<>>]
    ELSE LET prefix == Head(s)
             r      == Tail(s)
         IN  IF prefix >= 224
             THEN LET paddingLen == prefix - 224
                  IN  IF Len(r) < paddingLen
                      THEN [p |-> <<>>, err |-> "EOF", rest |-> <<>>]
                      ELSE nextPacketPlainEOF(SubSeq(r, paddingLen + 1, Len(r)))
             ELSE IF Len(r) < prefix
                  THEN [p |-> r \o Repeat(0, prefix - Len(r)),
                        err |-> "UnexpectedEOF", rest |-> <<>>]
                  ELSE [p |-> SubSeq(r, 1, prefix), err |-> "nil",
                        rest |-> SubSeq(r, prefix + 1, Len(r))]

RECURSIVE nextPacket(_)
nextPacket(s) ==
    IF s = <<>> THEN [p |-> <<>>, err |-> "EOF", rest |-> <<>>]
    ELSE LET prefix == Head(s)
             r      == Tail(s)
         IN  IF prefix >= 224
             THEN LET paddingLen == prefix - 224
                  IN  IF Len(r) < paddingLen
                      THEN [p |-> <<>>, err |-> "UnexpectedEOF", rest |-> <<>>]
                      ELSE nextPacket(SubSeq(r, paddingLen + 1, Len(r)))
             ELSE IF Len(r) < prefix
                  THEN [p |-> r \o Repeat(0, prefix - Len(r)),
                        err |-> "UnexpectedEOF", rest |-> <<>>]
                  ELSE [p |-> SubSeq(r, 1, prefix), err |-> "nil",
                        rest |-> SubSeq(r, prefix + 1, Len(r))]

\* The inner loop of recvLoop: the packets nextPacket returns until its
\* first error, in order.
RECURSIVE PacketsOf(_)
PacketsOf(payload) ==
    LET np == nextPacket(payload)
    IN  IF np.err # "nil" THEN <<>>
        ELSE <<np.p>> \o PacketsOf(np.rest)

(***************************************************************************)
(* Package dns: names and messages.                                        *)
(***************************************************************************)
\* Name.TrimSuffix(suffix): the labels before the suffix and whether the
\* name ends in the suffix (labels compared without regard to case).
TrimSuffix(name, suffix) ==
    IF Len(name) < Len(suffix) THEN [prefix |-> <<>>, ok |-> FALSE]
    ELSE LET split == Len(name) - Len(suffix)
         IN  IF \A i \in 1..Len(suffix) :
                    ToLower(name[split + i]) = ToLower(suffix[i])
             THEN [prefix |-> SubSeq(name, 1, split), ok |-> TRUE]
             ELSE [prefix |-> <<>>, ok |-> FALSE]

\* Message.Rcode(): the RCODE field of the header flags.
Rcode(msg) == BitAnd(msg.Flags, 15)

\* A variant of ServerOPT whose RR is not an OPT RR.
ServerOPTAsTXT == [Name |-> <<>>, Type |-> RRTypeTXT, Class |-> 4096, TTL |-> 0,
                   Data |-> <<>>]

\* The OPT RR the server adds to a response.
ServerOPT == [Name |-> <<>>, Type |-> RRTypeOPT, Class |-> 4096, TTL |-> 0,
              Data |-> <<>>]

(***************************************************************************)
(* responseFor: the response skeleton for a query, the ClientID and the    *)
(* payload extracted from its name.  resp is <<>> for the nil pointer and  *)
(* <<m>> for a pointer to message m; payload <<>> stands for nil too.      *)
(***************************************************************************)
zeroClientID == Repeat(0, clientIDLen)

Return(resp, clientID, payload) ==
    [resp |-> resp, clientID |-> clientID, payload |-> payload]

\* resp.Flags |= bits
OrFlags(resp, bits) == [resp EXCEPT !.Flags = BitOr(resp.Flags, bits)]

\* The loop over query.Additional, from its i-th RR on.  It ends either
\* with a return from responseFor (ret = TRUE) or at the end of the
\* section, with the response and payloadSize it has then.
RECURSIVE ScanAdditional(_, _, _, _)
ScanAdditional(additional, i, resp, payloadSize) ==
    IF i > Len(additional)
    THEN [ret |-> FALSE, resp |-> resp, payloadSize |-> payloadSize]
    ELSE LET rr == additional[i]
         IN  IF rr.Type # RRTypeOPT
             THEN ScanAdditional(additional, i + 1, resp, payloadSize)
             ELSE IF Len(resp.Additional) # 0
             THEN [ret |-> TRUE, resp |-> OrFlags(resp, RcodeFormatError),
                   payloadSize |-> payloadSize]
             ELSE LET withOPT == [resp EXCEPT !.Additional = Append(@, ServerOPT)]
                      version == BitAnd(Shr(rr.TTL, 16), 255)
                  IN  IF version # 0
                      THEN [ret |-> TRUE,
                            resp |-> [OrFlags(withOPT, BitAnd(ExtendedRcodeBadVers, 15))
                                        EXCEPT !.Additional[1].TTL =
                                            Shl(Shr(ExtendedRcodeBadVers, 4), 24)],
                            payloadSize |-> payloadSize]
                      ELSE ScanAdditional(additional, i + 1, withOPT, rr.Class)

\* A variant of AnswerQuestion that returns the payload with the FORMERR
\* for a payload size that is too small.
AnswerQuestionKeepsPayload(query, domain, resp0, payloadSize) ==
    LET question == query.Question[1]
        trimmed  == TrimSuffix(question.Name, domain)
        resp     == IF trimmed.ok THEN OrFlags(resp0, 1024) ELSE resp0
        decoded  == Base32Decode(ToUpper(Join(trimmed.prefix)))
        payload  == decoded.out
        n        == IF Len(payload) < clientIDLen THEN Len(payload) ELSE clientIDLen
        clientID == [i \in 1..clientIDLen |-> IF i <= n THEN payload[i] ELSE 0]
        rest     == SubSeq(payload, clientIDLen + 1, Len(payload))
    IN  IF BitAnd(resp.Flags, 1024) = 0
        THEN Return(<<OrFlags(resp, RcodeNameError)>>, zeroClientID, <<>>)
        ELSE IF BitAnd(query.Flags, 30720) # 0
        THEN Return(<<OrFlags(resp, RcodeNotImplemented)>>, zeroClientID, <<>>)
        ELSE IF question.Type # RRTypeTXT \/ decoded.err
        THEN Return(<<OrFlags(resp, RcodeNameError)>>, zeroClientID, <<>>)
        ELSE IF n < clientIDLen
        THEN Return(<<OrFlags(resp, RcodeNameError)>>, clientID, <<>>)
        ELSE IF payloadSize < maxUDPPayload
        THEN Return(<<OrFlags(resp, RcodeFormatError)>>, clientID, rest)
        ELSE Return(<<resp>>, clientID, rest)

\* A variant of AnswerQuestion that checks the OPCODE before the name, as
\* the server did before it set AA by the name.
AnswerQuestionOpcodeFirst(query, domain, resp0, payloadSize) ==
    LET question == query.Question[1]
        trimmed  == TrimSuffix(question.Name, domain)
        resp     == IF trimmed.ok THEN OrFlags(resp0, 1024) ELSE resp0
        decoded  == Base32Decode(ToUpper(Join(trimmed.prefix)))
        payload  == decoded.out
        n        == IF Len(payload) < clientIDLen THEN Len(payload) ELSE clientIDLen
        clientID == [i \in 1..clientIDLen |-> IF i <= n THEN payload[i] ELSE 0]
    IN  IF BitAnd(query.Flags, 30720) # 0
        THEN Return(<<OrFlags(resp, RcodeNotImplemented)>>, zeroClientID, <<>>)
        ELSE IF BitAnd(resp.Flags, 1024) = 0
        THEN Return(<<OrFlags(resp, RcodeNameError)>>, zeroClientID, <<>>)
        ELSE IF question.Type # RRTypeTXT \/ decoded.err
        THEN Return(<<OrFlags(resp, RcodeNameError)>>, zeroClientID, <<>>)
        ELSE IF n < clientIDLen
        THEN Return(<<OrFlags(resp, RcodeNameError)>>, clientID, <<>>)
        ELSE IF payloadSize < maxUDPPayload
        THEN Return(<<OrFlags(resp, RcodeFormatError)>>, clientID, <<>>)
        ELSE Return(<<resp>>, clientID, SubSeq(payload, clientIDLen + 1, Len(payload)))

\* The part of responseFor after the Question count check.
AnswerQuestion(query, domain, resp0, payloadSize) ==
    LET question == query.Question[1]
        trimmed  == TrimSuffix(question.Name, domain)
        resp     == IF trimmed.ok THEN OrFlags(resp0, 1024) ELSE resp0
        encoded  == ToUpper(Join(trimmed.prefix))
        decoded  == Base32Decode(encoded)
        payload  == decoded.out
        n        == IF Len(payload) < clientIDLen THEN Len(payload) ELSE clientIDLen
        clientID == [i \in 1..clientIDLen |-> IF i <= n THEN payload[i] ELSE 0]
    IN  IF BitAnd(resp.Flags, 1024) = 0
        THEN Return(<<OrFlags(resp, RcodeNameError)>>, zeroClientID, <<>>)
        ELSE IF BitAnd(query.Flags, 30720) # 0
        THEN Return(<<OrFlags(resp, RcodeNotImplemented)>>, zeroClientID, <<>>)
        ELSE IF question.Type # RRTypeTXT
        THEN Return(<<OrFlags(resp, RcodeNameError)>>, zeroClientID, <<>>)
        ELSE IF decoded.err
        THEN Return(<<OrFlags(resp, RcodeNameError)>>, zeroClientID, <<>>)
        ELSE IF n < clientIDLen
        THEN Return(<<OrFlags(resp, RcodeNameError)>>, clientID, <<>>)
        ELSE IF payloadSize < maxUDPPayload
        THEN Return(<<OrFlags(resp, RcodeFormatError)>>, clientID, <<>>)
        ELSE Return(<<resp>>, clientID, SubSeq(payload, clientIDLen + 1, Len(payload)))

responseFor(query, domain) ==
    LET resp0 == [ID |-> query.ID, Flags |-> 32768, Question |-> query.Question,
                  Answer |-> <<>>, Additional |-> <<>>]
    IN  IF BitAnd(query.Flags, 32768) # 0
        THEN Return(<<>>, zeroClientID, <<>>)
        ELSE LET scan == ScanAdditional(query.Additional, 1, resp0, 0)
                 payloadSize == IF scan.payloadSize < 512 THEN 512
                                ELSE scan.payloadSize
             IN  IF scan.ret
                 THEN Return(<<scan.resp>>, zeroClientID, <<>>)
                 ELSE IF Len(query.Question) # 1
                 THEN Return(<<OrFlags(scan.resp, RcodeFormatError)>>,
                             zeroClientID, <<>>)
                 ELSE AnswerQuestion(query, domain, scan.resp, payloadSize)

\* dns.EncodeRDataTXT: the bytes as <character-string>s of at most 255
\* bytes, each behind its length byte; at least one (maybe empty) string.
RECURSIVE EncodeRDataTXT(_)
EncodeRDataTXT(p) ==
    IF Len(p) > 255
    THEN <<255>> \o SubSeq(p, 1, 255) \o EncodeRDataTXT(SubSeq(p, 256, Len(p)))
    ELSE <<Len(p)>> \o p

\* The bytes messageBuilder.writeName writes for a name, given the set of
\* name suffixes already written (each can be pointed to in 2 bytes), and
\* the suffixes written after it.
\* (Each intermediate result is bound as the element of a singleton, so
\* that it is computed once.)
RECURSIVE NameWire(_, _)
NameWire(name, seen) ==
    IF name = <<>> THEN [len |-> 1, seen |-> seen]
    ELSE IF name \in seen THEN [len |-> 2, seen |-> seen]
    ELSE CHOOSE w \in { [len |-> 1 + Len(Head(name)) + rest.len,
                         seen |-> rest.seen] :
                        rest \in {NameWire(Tail(name), seen \cup {name})} } : TRUE

\* The bytes of a sequence of Questions (fixed = 4: QTYPE, QCLASS) or of
\* RRs (fixed = 10: TYPE, CLASS, TTL, RDLENGTH, followed by the RDATA).
RECURSIVE SectionWire(_, _, _)
SectionWire(entries, fixed, seen) ==
    IF entries = <<>> THEN [len |-> 0, seen |-> seen]
    ELSE LET e    == Head(entries)
             data == IF fixed = 10 THEN Len(e.Data) ELSE 0
         IN  CHOOSE w \in UNION {
                 { [len |-> nm.len + fixed + data + rest.len, seen |-> rest.seen] :
                     rest \in {SectionWire(Tail(entries), fixed, nm.seen)} } :
                 nm \in {NameWire(e.Name, seen)} } : TRUE

\* len(buf) for buf, err := msg.WireFormat(): the 12-byte header and the
\* Question, Answer and Additional sections.
WireLen(msg) ==
    CHOOSE n \in UNION { UNION {
        { 12 + q.len + an.len + ad.len :
            ad \in {SectionWire(msg.Additional, 10, an.seen)} } :
        an \in {SectionWire(msg.Answer, 10, q.seen)} } :
        q \in {SectionWire(msg.Question, 4, {})} } : TRUE

(***************************************************************************)
(* The queries the model receives.  A query is described by a case: what a *)
(* client (or anybody else) put into it.  BuildQuery turns the case into   *)
(* the dns.Message that dns.MessageFromWireFormat hands to responseFor.    *)
(* The name of a tunnel query is built as the client builds it (spec,      *)
(* "Name encoding"): base32 without padding of ClientID || framed packets, *)
(* split into labels, followed by the domain.                              *)
(***************************************************************************)
\* The server's domain, t.example.com, and a foreign one, other.com.
domain == << <<116>>, <<101, 120, 97, 109, 112, 108, 101>>, <<99, 111, 109>> >>

otherDomain == << <<111, 116, 104, 101, 114>>, <<99, 111, 109>> >>

\* The server's domain as a client may spell it: T.EXAMPLE.COM.
upperDomain == [i \in 1..Len(domain) |-> ToUpper(domain[i])]

idA == Repeat(161, clientIDLen)

idB == Repeat(178, clientIDLen)

\* One character of the base32 alphabet.
B32Char(v) == IF v < 26 THEN 65 + v ELSE 50 + (v - 26)

\* RFC 4648 base32 of up to 5 bytes, without padding.
B32EncodeGroup(g) ==
    LET b(j) == IF j <= Len(g) THEN g[j] ELSE 0
        c == << b(1) \div 8,
                (b(1) % 8) * 4 + (b(2) \div 64),
                (b(2) \div 2) % 32,
                (b(2) % 2) * 16 + (b(3) \div 16),
                (b(3) % 16) * 2 + (b(4) \div 128),
                (b(4) \div 4) % 32,
                (b(4) % 4) * 8 + (b(5) \div 32),
                b(5) % 32 >>
        n == CASE Len(g) = 1 -> 2 [] Len(g) = 2 -> 4 [] Len(g) = 3 -> 5
               [] Len(g) = 4 -> 7 [] OTHER -> 8
    IN  [i \in 1..n |-> B32Char(c[i])]

RECURSIVE Base32Encode(_)
Base32Encode(s) ==
    IF s = <<>> THEN <<>>
    ELSE IF Len(s) <= 5 THEN B32EncodeGroup(s)
    ELSE B32EncodeGroup(SubSeq(s, 1, 5)) \o Base32Encode(SubSeq(s, 6, Len(s)))

\* A string cut into labels of at most n bytes.
RECURSIVE SplitLabels(_, _)
SplitLabels(s, n) ==
    IF s = <<>> THEN <<>>
    ELSE IF Len(s) <= n THEN <<s>>
    ELSE <<SubSeq(s, 1, n)>> \o SplitLabels(SubSeq(s, n + 1, Len(s)), n)

\* The upstream framing of a sequence of items, each a packet
\* [pkt |-> bytes] (a length byte 0..223, then the bytes) or padding
\* [pad |-> n] (the byte 224 + n, then n bytes).
RECURSIVE FrameItems(_)
FrameItems(items) ==
    IF items = <<>> THEN <<>>
    ELSE LET it == Head(items)
         IN  (IF it.pad >= 0 THEN <<224 + it.pad>> \o Repeat(0, it.pad)
              ELSE <<Len(it.pkt)>> \o it.pkt) \o FrameItems(Tail(items))

Pkt(bytes) == [pad |-> -1, pkt |-> bytes]

Pad(n) == [pad |-> n, pkt |-> <<>>]

\* The packets among the items, in order.
RECURSIVE PktsOf(_)
PktsOf(items) ==
    IF items = <<>> THEN <<>>
    ELSE (IF Head(items).pad >= 0 THEN <<>> ELSE <<Head(items).pkt>>)
         \o PktsOf(Tail(items))

\* The description of a name: the bytes before encoding are head (a
\* ClientID, or less), the framed items and tail (the beginning of an
\* item that is cut short); lower: sent in lower case; split: the length
\* of the labels; bad: one character replaced by '1', which is not in
\* the base32 alphabet; suffix: the labels after the encoded ones; rune:
\* 0, or a rune above U+007F written in UTF-8 in place of one character.
NameDesc(head, items, tail, lower, split, bad, suffix) ==
    [head |-> head, items |-> items, tail |-> tail, lower |-> lower,
     split |-> split, bad |-> bad, suffix |-> suffix, rune |-> 0]

\* The name of nd with the rune r in place of one character.
WithRune(nd, r) == [nd EXCEPT !.rune = r]

\* The string s with the UTF-8 bytes of the rune r in place of one
\* character: the first one with the upper case of r when s has one, else
\* the second.
PutRune(s, r) ==
    LET same == {i \in 1..Len(s) : UpperByte(s[i]) = UnicodeToUpper(r)}
        at   == IF same = {} THEN 2 ELSE CHOOSE i \in same : \A j \in same : i <= j
    IN  SubSeq(s, 1, at - 1) \o EncodeRune(r) \o SubSeq(s, at + 1, Len(s))

BuildName(nd) ==
    LET enc  == Base32Encode(nd.head \o FrameItems(nd.items) \o nd.tail)
        enc1 == IF nd.bad THEN [enc EXCEPT ![2] = 49] ELSE enc
        enc2 == IF nd.lower THEN ToLower(enc1) ELSE enc1
        enc3 == IF nd.rune # 0 THEN PutRune(enc2, nd.rune) ELSE enc2
    IN  SplitLabels(enc3, nd.split) \o nd.suffix

fewItems == << Pkt(<<10, 11, 12>>), Pad(2), Pkt(<<>>), Pad(0), Pkt(<<20, 21>>) >>

NameDescs ==
    { NameDesc(idA, fewItems, <<>>, FALSE, 63, FALSE, domain),
      NameDesc(idA, fewItems, <<>>, TRUE, 10, FALSE, domain),
      NameDesc(idB, <<Pkt(<<30>>)>>, <<>>, FALSE, 63, FALSE, domain),
      NameDesc(idA, <<>>, <<>>, FALSE, 63, FALSE, domain),
      NameDesc(idA, <<Pkt(<<40>>)>>, <<5, 41, 42>>, FALSE, 63, FALSE, domain),
      NameDesc(idA, <<Pkt(<<50, 51>>)>>, <<230, 0, 0>>, FALSE, 63, FALSE, domain),
      NameDesc(SubSeq(idA, 1, 7), <<>>, <<>>, FALSE, 63, FALSE, domain),
      NameDesc(idA, <<Pkt(<<60>>)>>, <<>>, FALSE, 63, TRUE, domain),
      NameDesc(idA, <<Pkt(<<70>>)>>, <<>>, FALSE, 63, FALSE, otherDomain),
      NameDesc(idA, <<Pkt(<<71>>)>>, <<>>, FALSE, 63, FALSE, domain \o <<otherDomain[2]>>),
      NameDesc(idB, <<Pkt(<<31>>), Pkt(<<32, 33>>)>>, <<>>, FALSE, 63, FALSE, upperDomain),
      NameDesc(<<>>, <<>>, <<>>, FALSE, 63, FALSE, Tail(domain)),
      NameDesc(<<>>, <<>>, <<>>, FALSE, 63, FALSE, domain),
      WithRune(NameDesc(idA, <<Pkt(<<18, 18>>)>>, <<>>, FALSE, 63, FALSE, domain), 305),
      WithRune(NameDesc(idA, <<Pkt(<<18, 18>>)>>, <<>>, TRUE, 63, FALSE, domain), 383),
      WithRune(NameDesc(idA, <<Pkt(<<18, 19>>)>>, <<>>, FALSE, 63, FALSE, domain), 255) }

\* An RR of a query's Additional section: an OPT RR advertising a payload
\* size (its CLASS) with an EDNS version (bits 16..23 of its TTL), or an
\* A RR.
OPT(size, version) ==
    [Name |-> <<>>, Type |-> RRTypeOPT, Class |-> size, TTL |-> Shl(version, 16),
     Data |-> <<>>]

otherRR == [Name |-> otherDomain, Type |-> 1, Class |-> 1, TTL |-> 0,
            Data |-> <<192, 0, 2, 1>>]

AdditionalKinds ==
    { <<>>,
      <<OPT(4096, 0)>>,
      <<OPT(maxUDPPayload, 0)>>,
      <<OPT(maxUDPPayload - 1, 0)>>,
      <<OPT(512, 0)>>,
      <<OPT(0, 0)>>,
      <<OPT(4096, 1)>>,
      <<otherRR>>,
      <<otherRR, OPT(4096, 0)>>,
      <<OPT(4096, 0), OPT(4096, 0)>>,
      <<OPT(4096, 1), OPT(4096, 0)>>,
      <<OPT(4096, 0), OPT(4096, 1)>>,
      <<OPT(4096, 0), otherRR, OPT(512, 0)>> }

\* Header flags of a query: a standard query, one with RD set, one with
\* OPCODE 1, and a response (QR = 1).
FlagKinds == {0, 256, 2048, 32768}

\* A case: the description of one query.  nq is the number of Questions;
\* the first has the described name and the type qtype, the others are
\* TXT questions for longer and longer names under the domain.
Case(id, flags, nq, qtype, nd, additional) ==
    [id |-> id, flags |-> flags, nq |-> nq, qtype |-> qtype, nd |-> nd,
     additional |-> additional]

Question(name, type) == [Name |-> name, Type |-> type, Class |-> 1]

\* A name of 255 bytes on the wire that shares no suffix with another.
LongName(k) ==
    << Repeat(96 + k, 63), Repeat(96 + k, 63), Repeat(96 + k, 63), Repeat(96 + k, 61) >>

BuildQuery(c) ==
    [ID |-> c.id, Flags |-> c.flags,
     Question |-> [i \in 1..c.nq |->
                     IF i = 1 THEN Question(BuildName(c.nd), c.qtype)
                     ELSE Question(LongName(i), RRTypeTXT)],
     Answer |-> <<>>, Additional |-> c.additional]

\* The queries the model receives under SpecRF: every combination of
\* flags, QTYPE (TXT or A), name and Additional section in a query with
\* one Question, and queries with no, two or six Questions (six make a
\* response longer than maxUDPPayload).
OneQuestionCases ==
    { Case(7, flags, 1, qtype, nd, additional) :
        flags \in FlagKinds, qtype \in {RRTypeTXT, 1}, nd \in NameDescs,
        additional \in AdditionalKinds }

OtherCounts == {0, 2, 6}

OtherCases ==
    { Case(4660, flags, nq, RRTypeTXT, nd, additional) :
        flags \in {0, 32768}, nq \in OtherCounts,
        nd \in { NameDesc(idA, fewItems, <<>>, FALSE, 63, FALSE, domain),
                 NameDesc(idA, <<Pkt(<<70>>)>>, <<>>, FALSE, 63, FALSE, otherDomain) },
        additional \in { <<>>, <<OPT(4096, 0)>>, <<OPT(4096, 1)>>,
                         <<OPT(4096, 0), OPT(4096, 0)>> } }

AllCases == OneQuestionCases \cup OtherCases

\* The queries the model receives under Spec: tunnel queries of the
\* clients A and B, and a query whose six Questions make a response
\* (FORMERR) longer than maxUDPPayload.
caseA == Case(7, 0, 1, RRTypeTXT,
              NameDesc(idA, <<Pkt(<<10, 11, 12>>)>>, <<>>, FALSE, 63, FALSE, domain),
              <<OPT(4096, 0)>>)

caseB == Case(4660, 256, 1, RRTypeTXT,
              NameDesc(idB, <<Pkt(<<30>>)>>, <<>>, FALSE, 63, FALSE, domain),
              <<OPT(maxUDPPayload, 0)>>)

caseLong == Case(4660, 0, 6, RRTypeTXT,
                 NameDesc(idA, <<>>, <<>>, FALSE, 63, FALSE, domain),
                 <<OPT(4096, 0)>>)

CoreCases == {caseA, caseB, caseLong}

(***************************************************************************)
(* Bounds of the model.                                                    *)
(***************************************************************************)
\* The number of datagrams recvLoop reads under Spec.
MaxQueries == 2

\* The number of packets the reliable transport writes to outgoing queues.
MaxOut == 4

\* A variant of PktLens for an MTU of maxEncodedPayload - 1.
PktLensOverMTU == {100, maxEncodedPayload - 1}

\* The lengths of the packets the reliable transport writes: its MTU is
\* maxEncodedPayload - 2 (acceptSessions, conn.SetMtu).
PktLens == {100, maxEncodedPayload - 2}

\* The clients with an outgoing queue: A, B, and the all-zero ClientID
\* that responseFor returns on its error paths.
ClientIDs == {idA, idB, zeroClientID}

(***************************************************************************)
(* The state.                                                              *)
(***************************************************************************)
VARIABLES
    ch,        \* the buffer of the channel ch of loop: records in flight
    incoming,  \* the calls ttConn.QueueIncoming(p, clientID), in order
    outgoing,  \* ttConn's outgoing queue of each client
    nOut,      \* the number of packets written to outgoing queues so far
    pc,        \* where sendLoop is: "top" (of the loop), "poll" (the outer
               \* select of the bundling loop), "wait" (the inner select),
               \* "returned"
    rec,       \* sendLoop's rec: <<>> (nil) or <<r>>
    nextRec,   \* sendLoop's nextRec: <<>> (nil) or <<r>>
    nextP,     \* sendLoop's nextP: a packet, <<>> for nil
    payload,   \* sendLoop's payload buffer
    limit,     \* sendLoop's limit
    timer,     \* the time left on sendLoop's timer
    waited,    \* the time since rec was received from ch
    startQ,    \* the outgoing queue of rec's client when rec was taken up
    startP,    \* nextP when rec was taken up
    written,   \* the calls dnsConn.WriteTo(buf, addr), in order: for each
               \* the address, the length and the header flags of buf,
               \* the packets of its bundle and the error the call
               \* returned; with them the responses that WireFormat
               \* failed on, which were not written (error "serialize")
    lastWrite, \* the last of these calls in full: <<>> or <<datagram>>
    received,  \* the cases of the queries recvLoop has read, in order
    returned,  \* what responseFor returned for the last of them: <<>> or <<r>>
    accepted,  \* the addresses of the records recvLoop put on ch, in order
    recvDone,  \* recvLoop has returned and loop has closed ch
    sendRet,   \* what sendLoop returned: "nil" or "error"; "" while it runs
    exited,    \* main has returned: the process is over
    faults,    \* how many more errors ReadFrom and WriteTo will report
    input,     \* the packets and padding given to a writer of bundles
    toWrite,   \* the packets the writer of sendLoop has still to write
    reader,    \* the bytes left in the reader r given to nextPacket
    results,   \* what the calls nextPacket(r) returned, in order
    lnRet,     \* what acceptSessions returned: "error", or "" while it runs
    sessions,  \* the KCP sessions accepted, in order: for each where its
               \* goroutine is and whether conn is closed
    streams,   \* the smux streams accepted, in order: for each its session
               \* and the state of its handleStream
    retries,   \* the number of temporary errors of the accept calls so far
    keygen,    \* generateKeypair: its arguments, where it is, toDelete, err
    fs,        \* the file system: what each file name holds
    exitCode,  \* <<>> while the process runs, else <<its exit code>>
    srv,       \* main in server mode: its options, where it is, and
               \* whether the UDP listener was opened
    connClosed \* run's goroutine has closed dnsConn (its deferred
               \* dnsConn.Close(), after loop has returned)

\* The state of the framing on its own.
framingVars == <<input, toWrite, reader, results>>

FramingIdle ==
    /\ input = <<>>
    /\ toWrite = <<>>
    /\ reader = <<>>
    /\ results = <<>>

\* The state of the sessions and streams.
fabricVars == <<lnRet, sessions, streams, retries>>

FabricIdle ==
    /\ lnRet = ""
    /\ sessions = <<>>
    /\ streams = <<>>
    /\ retries = 0

\* The state of -gen-key mode.
keygenVars == <<keygen, fs, exitCode>>

FileNames == {"priv.key", "pub.key"}

KeygenIdle ==
    /\ keygen = [at |-> "idle"]
    /\ fs = [f \in FileNames |-> "absent"]
    /\ exitCode = <<>>

\* The state of main in server mode.
mainVars == <<srv, connClosed>>

MainIdle ==
    /\ srv = [at |-> "idle"]
    /\ connClosed = FALSE

\* The state of the other parts of the program, which the UDP loops leave
\* alone.
otherVars == <<framingVars, fabricVars, keygenVars, mainVars>>

OtherIdle == FramingIdle /\ FabricIdle /\ KeygenIdle /\ MainIdle

vars == <<ch, incoming, outgoing, nOut, pc, rec, nextRec, nextP, payload,
          limit, timer, waited, startQ, startP, written, lastWrite, received,
          returned, accepted, recvDone, sendRet, exited, faults, otherVars>>

sendVars == <<pc, rec, nextRec, nextP, payload, limit, timer, waited,
              startQ, startP, written, lastWrite>>

recvVars == <<incoming, received, returned>>

Init ==
    /\ ch = <<>>
    /\ incoming = <<>>
    /\ outgoing = [c \in ClientIDs |-> <<>>]
    /\ nOut = 0
    /\ pc = "top"
    /\ rec = <<>>
    /\ nextRec = <<>>
    /\ nextP = <<>>
    /\ payload = <<>>
    /\ limit = 0
    /\ timer = 0
    /\ waited = 0
    /\ startQ = <<>>
    /\ startP = <<>>
    /\ written = <<>>
    /\ lastWrite = <<>>
    /\ received = <<>>
    /\ returned = <<>>
    /\ accepted = <<>>
    /\ recvDone = FALSE
    /\ sendRet = ""
    /\ exited = FALSE
    /\ faults = 0
    /\ OtherIdle

(***************************************************************************)
(* recvLoop.                                                               *)
(***************************************************************************)
\* A variant of TrySend for a channel without a capacity.
TrySendUnbounded(chan, r) == Append(chan, r)

\* select { case ch <- r: default: }: the channel after the attempt.
TrySend(chan, r) == IF Len(chan) < chanCap THEN Append(chan, r) ELSE chan

\* A variant of QueueAll that makes the calls in the opposite order.
QueueAllReversed(payloadBytes, clientID) ==
    LET ps == PacketsOf(payloadBytes)
    IN  [i \in 1..Len(ps) |-> [p |-> ps[Len(ps) + 1 - i], clientID |-> clientID]]

\* The calls of QueueIncoming for a payload: one per packet, in order,
\* each under clientID.
QueueAll(payloadBytes, clientID) ==
    LET ps == PacketsOf(payloadBytes)
    IN  [i \in 1..Len(ps) |-> [p |-> ps[i], clientID |-> clientID]]

\* One iteration of recvLoop for a datagram that parses as the query of
\* case c.  The source address of the k-th datagram is k.
RecvLoop(c) ==
    LET query == BuildQuery(c)
        addr  == Len(received) + 1
        r     == responseFor(query, domain)
        rcd   == [Resp |-> r.resp[1], Addr |-> addr, ClientID |-> r.clientID]
    IN  /\ ~recvDone
        /\ ch' = IF r.resp # <<>> THEN TrySend(ch, rcd) ELSE ch
        /\ accepted' = IF r.resp # <<>> /\ TrySend(ch, rcd) # ch
                       THEN Append(accepted, addr)
                       ELSE accepted
        /\ incoming' = incoming \o QueueAll(r.payload, r.clientID)
        /\ received' = Append(received, c)
        /\ returned' = <<r>>
        /\ UNCHANGED <<outgoing, nOut, recvDone, sendRet, exited, faults>>
        /\ UNCHANGED sendVars
        /\ UNCHANGED otherVars

(***************************************************************************)
(* The reliable transport writing a packet for a client (ttConn.WriteTo).  *)
(***************************************************************************)
\* The k-th packet written, of n bytes, for client c: its first byte is
\* the first byte of c, the others are k.
OutPacket(c, k, n) == [i \in 1..n |-> IF i = 1 THEN c[1] ELSE k]

KcpWrite(c, n) ==
    /\ ~exited
    /\ nOut < MaxOut
    /\ nOut' = nOut + 1
    /\ outgoing' = [outgoing EXCEPT ![c] = Append(@, OutPacket(c, nOut + 1, n))]
    /\ UNCHANGED <<ch, accepted, recvDone, sendRet, exited, faults>>
    /\ UNCHANGED recvVars
    /\ UNCHANGED sendVars
    /\ UNCHANGED otherVars

\* The capacity of an outgoing queue in the model of a transport that
\* never stops writing.
QueueCap == 1

\* The lengths of the packets of a transport that never stops writing: the
\* shortest packet QueuePacketConn.WriteTo accepts and the longest the
\* reliable transport writes.
RefillLens == {0, maxEncodedPayload - 2}

\* ttConn.WriteTo for client c, as often as there is room in the queue:
\* the packets are not numbered.
Refill(c, n) ==
    /\ ~exited
    /\ Len(outgoing[c]) < QueueCap
    /\ outgoing' = [outgoing EXCEPT ![c] = Append(@, OutPacket(c, 0, n))]
    /\ UNCHANGED <<ch, nOut, accepted, recvDone, sendRet, exited, faults>>
    /\ UNCHANGED recvVars
    /\ UNCHANGED sendVars
    /\ UNCHANGED otherVars

(***************************************************************************)
(* sendLoop.                                                               *)
(***************************************************************************)
\* A variant of Frame that writes the length with the low byte first.
FrameLittleEndian(p) == <<Len(p) % 256, Len(p) \div 256>> \o p

\* binary.Write(&payload, binary.BigEndian, uint16(len(p))) and
\* payload.Write(p): what is appended to the bundle for a packet.  No
\* packet of the model is longer than 65535 bytes (sendLoop panics on one).
Frame(p) == <<Len(p) \div 256, Len(p) % 256>> \o p

\* len(rec.Resp.Question) == 1 && rec.Resp.Rcode() == dns.RcodeNoError
WantsAnswer(resp) == Rcode(resp) = RcodeNoError /\ Len(resp.Question) = 1

\* The Answer section sendLoop installs in a non-error response.
AnswerFor(resp) ==
    << [Name |-> resp.Question[1].Name, Type |-> resp.Question[1].Type,
        Class |-> resp.Question[1].Class, TTL |-> responseTTL, Data |-> <<>>] >>

\* A variant of BundleStart that drops the packet left over.
BundleStartWithoutLeftover(leftover) ==
    [payload |-> <<>>, limit |-> maxEncodedPayload]

\* The bundle and the limit at the start of bundling, given nextP.
BundleStart(leftover) ==
    IF Len(leftover) > 0
    THEN [payload |-> Frame(leftover),
          limit |-> maxEncodedPayload - (2 + Len(leftover))]
    ELSE [payload |-> <<>>, limit |-> maxEncodedPayload]

\* timer := time.NewTimer(maxResponseDelay)
NewTimer == maxResponseDelay

\* nextP = p: the packet that does not fit is saved for the next
\* response.
SavePacket(p) == p

\* A variant of LimitAfter that counts the packet without its length
\* prefix.
LimitAfterPacketOnly(lim, p) == lim - Len(p)

\* limit -= 2 + len(p): the room left in the bundle after p is appended.
LimitAfter(lim, p) == lim - (2 + Len(p))

\* Whether a packet is left for the next response: 2+len(p) > limit.
TooLarge(p, lim) == 2 + Len(p) > lim

\* A variant of Truncate that cuts the response but leaves its flags as
\* they are: the properties about the TC bit must tell it from Truncate.
TruncateKeepFlags(n, f) ==
    IF n > maxUDPPayload
    THEN [Len |-> maxUDPPayload, Flags |-> f]
    ELSE [Len |-> n, Flags |-> f]

\* What is written for a serialized response of n bytes with the header
\* flags f: its length and its flags (bytes 2 and 3) after the truncation
\* to maxUDPPayload, which sets TC, bit 0x02 of byte 2.
Truncate(n, f) ==
    IF n > maxUDPPayload
    THEN [Len |-> maxUDPPayload, Flags |-> BitOr(f, 512)]
    ELSE [Len |-> n, Flags |-> f]

\* The call dnsConn.WriteTo(buf, r.Addr) for record r: the address, the
\* length and the header flags of buf, which is the serialized r.Resp
\* truncated as above; with them the message that was serialized, its
\* length, and, of sendLoop's state at the call, the bundle and the time
\* w since r was received.
Datagram(r, bundle, w) ==
    CHOOSE d \in {
        [Addr |-> r.Addr, Len |-> Truncate(n, r.Resp.Flags).Len,
         Flags |-> Truncate(n, r.Resp.Flags).Flags, Msg |-> r.Resp,
         WireLen |-> n, ClientID |-> r.ClientID, Bundle |-> bundle,
         Waited |-> w] :
        n \in {WireLen(r.Resp)} } : TRUE

\* The packets of a bundle: each behind its length, 2 bytes, big-endian.
\* The reading stops at a packet that is cut short.
\* (The packets are read 32 at a time, and each intermediate result is
\* bound as the element of a singleton, so that it is computed once and
\* the evaluation does not nest as deep as the bundle has packets.)
RECURSIVE UnframeSome(_, _)
UnframeSome(b, k) ==
    CHOOSE t \in {
        IF k = 0 \/ Len(v) < 2 \/ 2 + (v[1] * 256 + v[2]) > Len(v)
        THEN [pkts |-> <<>>, rest |-> v]
        ELSE CHOOSE u \in {
                 [pkts |-> <<SubSeq(v, 3, 2 + (v[1] * 256 + v[2]))>> \o r.pkts,
                  rest |-> r.rest] :
                 r \in {UnframeSome(SubSeq(v, 3 + (v[1] * 256 + v[2]), Len(v)),
                                    k - 1)} } : TRUE :
        v \in {b} } : TRUE

RECURSIVE Unframe(_)
Unframe(b) ==
    CHOOSE pkts \in {
        IF t.pkts = <<>> THEN <<>> ELSE t.pkts \o Unframe(t.rest) :
        t \in {UnframeSome(b, 32)} } : TRUE

\* What the log of writes keeps of a call that returned the error e.
LogEntry(d, e) ==
    [Addr |-> d.Addr, Len |-> d.Len, Flags |-> d.Flags, Err |-> e,
     Pkts |-> Unframe(d.Bundle)]

\* How the end of an iteration can go: "nil", and while faults are left
\* an error of rec.Resp.WireFormat() ("serialize"), or a temporary or a
\* permanent error of WriteTo.  Once dnsConn is closed every WriteTo
\* returns an error that is not temporary.
WriteErrs ==
    IF connClosed
    THEN IF faults > 0 THEN {"serialize", "permanent"} ELSE {"permanent"}
    ELSE IF faults > 0 THEN {"nil", "serialize", "temporary", "permanent"}
    ELSE {"nil"}

\* The faults left after the end of an iteration with e: the error of a
\* closed dnsConn is none of them.
FaultsAfter(e) ==
    IF e = "nil" \/ (connClosed /\ e = "permanent") THEN faults ELSE faults - 1

\* A variant of AfterWrite that takes every error for a temporary one.
AfterWriteGoesOn(e) == [pc |-> "top", ret |-> sendRet]

\* Where sendLoop goes after WireFormat or WriteTo returned e: to the top
\* of the loop (continue) unless it is an error of WriteTo that is not
\* temporary, which sendLoop returns.
AfterWrite(e) ==
    IF e = "permanent"
    THEN [pc |-> "returned", ret |-> "error"]
    ELSE [pc |-> "top", ret |-> sendRet]

\* The end of an iteration: buf, err := rec.Resp.WireFormat(), the
\* truncation and dnsConn.WriteTo(buf, rec.Addr), which returns e; then
\* the top of the loop, or the return of the error.
WriteResponse(r, bundle, w, e) ==
    /\ \E d \in {Datagram(r, bundle, w)} :
           /\ written' = Append(written, LogEntry(d, e))
           /\ lastWrite' = <<d>>
    /\ pc' = AfterWrite(e).pc
    /\ sendRet' = AfterWrite(e).ret
    /\ faults' = FaultsAfter(e)
    /\ rec' = <<>>
    /\ payload' = <<>>
    /\ limit' = 0
    /\ timer' = 0

\* The end of the bundling loop: timer.Stop(),
\* rec.Resp.Answer[0].Data = dns.EncodeRDataTXT(payload.Bytes()), and the
\* response is written.
EndBundle(e) ==
    \E r \in {[rec[1] EXCEPT !.Resp.Answer[1].Data = EncodeRDataTXT(payload)]} :
        WriteResponse(r, payload, waited, e)

\* A variant of TakeRecord that prefers a record of ch to nextRec.
TakeRecordChannelFirst(nr, chan) ==
    IF chan # <<>>
    THEN [r |-> Head(chan), ch |-> Tail(chan)]
    ELSE [r |-> nr[1], ch |-> chan]

\* rec := nextRec; nextRec = nil; if rec == nil { rec, ok = <-ch }: the
\* record taken up and what is left on ch, when nextRec or ch has one.
TakeRecord(nr, chan) ==
    IF nr # <<>>
    THEN [r |-> nr[1], ch |-> chan]
    ELSE [r |-> Head(chan), ch |-> Tail(chan)]

\* The top of the loop: rec is nextRec or, when that is nil, the next
\* record of ch (sendLoop blocks while ch is empty).  A non-error response
\* gets its Answer and the bundle is started; any other is written as it
\* is.
SendLoopTop ==
    /\ pc = "top"
    /\ ~exited
    /\ nextRec # <<>> \/ ch # <<>>
    /\ LET r == TakeRecord(nextRec, ch).r
       IN  /\ ch' = TakeRecord(nextRec, ch).ch
           /\ nextRec' = <<>>
           /\ waited' = 0
           /\ IF WantsAnswer(r.Resp)
              THEN /\ rec' = <<[r EXCEPT !.Resp.Answer = AnswerFor(r.Resp)]>>
                   /\ payload' = BundleStart(nextP).payload
                   /\ limit' = BundleStart(nextP).limit
                   /\ nextP' = <<>>
                   /\ timer' = NewTimer
                   /\ startQ' = outgoing[r.ClientID]
                   /\ startP' = nextP
                   /\ pc' = "poll"
                   /\ UNCHANGED <<written, lastWrite, sendRet, faults>>
              ELSE /\ \E e \in WriteErrs : WriteResponse(r, <<>>, 0, e)
                   /\ UNCHANGED <<nextP, startQ, startP>>
    /\ UNCHANGED <<outgoing, nOut, accepted, recvDone, exited>>
    /\ UNCHANGED recvVars
    /\ UNCHANGED otherVars

\* The outer select of the bundling loop: a packet of the client's
\* outgoing queue when there is one (it is appended to the bundle, or kept
\* in nextP when it is too large, which ends the bundling), else the
\* default case, where sendLoop goes on to the inner select.
SendLoopPoll ==
    /\ pc = "poll"
    /\ ~exited
    /\ \/ /\ outgoing[rec[1].ClientID] # <<>>
          /\ LET p == Head(outgoing[rec[1].ClientID])
             IN  /\ outgoing' = [outgoing EXCEPT ![rec[1].ClientID] = Tail(@)]
                 /\ IF TooLarge(p, limit)
                    THEN /\ nextP' = SavePacket(p)
                         /\ \E e \in WriteErrs : EndBundle(e)
                    ELSE /\ limit' = LimitAfter(limit, p)
                         /\ payload' = payload \o Frame(p)
                         /\ timer' = 0
                         /\ UNCHANGED <<nextP, rec, pc, written, lastWrite,
                                        sendRet, faults>>
       \/ /\ outgoing[rec[1].ClientID] = <<>>
          /\ pc' = "wait"
          /\ UNCHANGED <<outgoing, nextP, payload, limit, timer, rec, written,
                         lastWrite, sendRet, faults>>
    /\ UNCHANGED <<ch, nOut, nextRec, waited, startQ, startP, accepted,
                   recvDone, exited>>
    /\ UNCHANGED recvVars
    /\ UNCHANGED otherVars

\* A variant of KeepRecord that receives the record and forgets it.
KeepRecordForgets(r) == <<>>

\* case nextRec = <-ch: the record received is held in nextRec.
KeepRecord(r) == <<r>>

\* The inner select: another record arrives on ch and is kept in nextRec.
SendLoopNextRec ==
    /\ pc = "wait"
    /\ ~exited
    /\ ch # <<>>
    /\ nextRec' = KeepRecord(Head(ch))
    /\ ch' = Tail(ch)
    /\ \E e \in WriteErrs : EndBundle(e)
    /\ UNCHANGED <<outgoing, nOut, nextP, waited, startQ, startP, accepted,
                   recvDone, exited>>
    /\ UNCHANGED recvVars
    /\ UNCHANGED otherVars

\* The inner select: the timer fires.
SendLoopTimer ==
    /\ pc = "wait"
    /\ ~exited
    /\ timer = 0
    /\ \E e \in WriteErrs : EndBundle(e)
    /\ UNCHANGED <<ch, outgoing, nOut, nextRec, nextP, waited, startQ, startP,
                   accepted, recvDone, exited>>
    /\ UNCHANGED recvVars
    /\ UNCHANGED otherVars

\* Time passes while sendLoop is blocked in the inner select: no record
\* is on ch, ch is not closed, and the timer has not fired yet.
Tick ==
    /\ pc = "wait"
    /\ ~exited
    /\ ch = <<>>
    /\ ~recvDone
    /\ timer > 0
    /\ timer' = timer - 1
    /\ waited' = waited + 1
    /\ UNCHANGED <<ch, outgoing, nOut, pc, rec, nextRec, nextP, payload, limit,
                   startQ, startP, written, lastWrite, accepted, recvDone,
                   sendRet, exited, faults>>
    /\ UNCHANGED recvVars
    /\ UNCHANGED otherVars

SendLoop ==
    \/ SendLoopTop
    \/ SendLoopPoll
    \/ SendLoopNextRec
    \/ SendLoopTimer

\* A variant of SendLoopClosed that receives again instead of breaking out
\* of the loop.
SendLoopClosedGoesOn ==
    /\ pc = "top"
    /\ ~exited
    /\ nextRec = <<>>
    /\ ch = <<>>
    /\ recvDone
    /\ UNCHANGED vars

\* rec, ok = <-ch at the top of the loop when ch is closed and empty: ok is
\* false, sendLoop breaks out of the loop and returns nil.
SendLoopClosed ==
    /\ pc = "top"
    /\ ~exited
    /\ nextRec = <<>>
    /\ ch = <<>>
    /\ recvDone
    /\ pc' = "returned"
    /\ sendRet' = "nil"
    /\ UNCHANGED <<ch, outgoing, nOut, rec, nextRec, nextP, payload, limit,
                   timer, waited, startQ, startP, written, lastWrite,
                   accepted, recvDone, exited, faults>>
    /\ UNCHANGED recvVars
    /\ UNCHANGED otherVars

\* The inner select when ch is closed and empty: case nextRec = <-ch is
\* ready at once and leaves nextRec nil; the bundling ends.
SendLoopNextRecClosed ==
    /\ pc = "wait"
    /\ ~exited
    /\ ch = <<>>
    /\ recvDone
    /\ nextRec' = <<>>
    /\ \E e \in WriteErrs : EndBundle(e)
    /\ UNCHANGED <<ch, outgoing, nOut, nextP, waited, startQ, startP, accepted,
                   recvDone, exited>>
    /\ UNCHANGED recvVars
    /\ UNCHANGED otherVars

(***************************************************************************)
(* recvLoop's other paths, and the end of the process.                     *)
(***************************************************************************)
\* What the log of datagrams keeps for one that is not a DNS message.
garbage == Case(-1, 0, 0, 0, <<>>, <<>>)

\* One iteration of recvLoop for a datagram that
\* dns.MessageFromWireFormat rejects: it is logged and the loop goes on.
RecvGarbage ==
    /\ ~recvDone
    /\ received' = Append(received, garbage)
    /\ returned' = <<>>
    /\ UNCHANGED <<ch, incoming, outgoing, nOut, accepted, recvDone, sendRet,
                   exited, faults>>
    /\ UNCHANGED sendVars
    /\ UNCHANGED otherVars

\* A variant of AfterReadError that returns on every error.
AfterReadErrorReturns(kind) == TRUE

\* Whether recvLoop returns after dnsConn.ReadFrom returned an error of
\* this kind: a temporary one is logged and the loop goes on.
AfterReadError(kind) == kind # "temporary"

\* dnsConn.ReadFrom returns an error.  A temporary one is one of the
\* faults of the socket; the other is what a closed socket gives.  When
\* recvLoop returns, so does loop, whose deferred close(ch) runs.
ReadFromError(kind) ==
    /\ ~recvDone
    /\ kind = "temporary" => faults > 0
    /\ faults' = IF kind = "temporary" THEN faults - 1 ELSE faults
    /\ recvDone' = AfterReadError(kind)
    /\ UNCHANGED <<ch, incoming, outgoing, nOut, received, returned, accepted,
                   sendRet, exited>>
    /\ UNCHANGED sendVars
    /\ UNCHANGED otherVars

\* After loop has returned and run's goroutine has logged the error and
\* called wg.Done: its other deferred call, dnsConn.Close(), while main
\* has not returned yet.  sendLoop may still be running.
CloseConn ==
    /\ recvDone
    /\ ~exited
    /\ ~connClosed
    /\ connClosed' = TRUE
    /\ UNCHANGED <<ch, incoming, outgoing, nOut, received, returned, accepted,
                   recvDone, sendRet, exited, faults, srv>>
    /\ UNCHANGED sendVars
    /\ UNCHANGED <<framingVars, fabricVars, keygenVars>>

\* After loop has returned and run's goroutine has logged the error and
\* called wg.Done: wg.Wait returns in run, run returns nil and main
\* returns, before or after dnsConn was closed.
ProcessExit ==
    /\ recvDone
    /\ ~exited
    /\ exited' = TRUE
    /\ UNCHANGED <<ch, incoming, outgoing, nOut, received, returned, accepted,
                   recvDone, sendRet, faults>>
    /\ UNCHANGED sendVars
    /\ UNCHANGED otherVars

(***************************************************************************)
(* The specifications.                                                     *)
(***************************************************************************)
\* The server under a bounded load of queries and outgoing packets.
Next ==
    \/ \E c \in CoreCases : Len(received) < MaxQueries /\ RecvLoop(c)
    \/ \E n \in PktLens : KcpWrite(idA, n)
    \/ SendLoop
    \/ Tick

Spec == Init /\ [][Next]_vars

\* The server answering one query, any of AllCases, with one of a few
\* contents of the outgoing queues.
QueuesRF ==
    { [c \in ClientIDs |-> <<>>],
      [c \in ClientIDs |-> IF c = idA THEN <<OutPacket(idA, 1, 100)>> ELSE <<>>],
      [c \in ClientIDs |-> IF c = zeroClientID
                            THEN <<OutPacket(zeroClientID, 1, 100)>> ELSE <<>>],
      [c \in ClientIDs |-> IF c = idA
                            THEN <<OutPacket(idA, 1, 100), OutPacket(idA, 2, 100),
                                   OutPacket(idA, 3, 100)>>
                            ELSE <<>>] }

InitRF ==
    /\ ch = <<>>
    /\ incoming = <<>>
    /\ outgoing \in QueuesRF
    /\ nOut = Len(outgoing[idA]) + Len(outgoing[idB]) + Len(outgoing[zeroClientID])
    /\ pc = "top"
    /\ rec = <<>>
    /\ nextRec = <<>>
    /\ nextP = <<>>
    /\ payload = <<>>
    /\ limit = 0
    /\ timer = 0
    /\ waited = 0
    /\ startQ = <<>>
    /\ startP = <<>>
    /\ written = <<>>
    /\ lastWrite = <<>>
    /\ received = <<>>
    /\ returned = <<>>
    /\ accepted = <<>>
    /\ recvDone = FALSE
    /\ sendRet = ""
    /\ exited = FALSE
    /\ faults = 0
    /\ OtherIdle

NextRF ==
    \/ \E c \in AllCases : received = <<>> /\ RecvLoop(c)
    \/ SendLoopTop
    \/ SendLoopPoll
    \/ SendLoopTimer
    \/ Tick

SpecRF == InitRF /\ [][NextRF]_vars

\* The UDP loops with a socket that reports errors: the queries are a
\* tunnel query of client A, the same message with QR set, and datagrams
\* that are not DNS messages.
caseQR == [caseA EXCEPT !.flags = 32768]

caseForeign == Case(9, 0, 1, RRTypeTXT,
                    NameDesc(idA, <<Pkt(<<70>>)>>, <<>>, FALSE, 63, FALSE, otherDomain),
                    <<OPT(4096, 0)>>)

IOCases == {caseA, caseQR}

\* The number of errors the socket reports under SpecIO.
MaxFaults == 1

\* The address of the k-th record of a backlog.
BacklogAddr(k) == 1000 + k

\* A backlog of n records on ch, the responses to earlier queries, by
\* turns a query for a name of another domain and a tunnel query of
\* client B.
Backlog(n) ==
    [k \in 1..n |->
       LET r == responseFor(BuildQuery(IF k % 2 = 1 THEN caseForeign ELSE caseB),
                            domain)
       IN  [Resp |-> r.resp[1], Addr |-> BacklogAddr(k), ClientID |-> r.clientID]]

InitIO ==
    /\ ch = <<>>
    /\ accepted = <<>>
    /\ incoming = <<>>
    /\ outgoing = [c \in ClientIDs |-> <<>>]
    /\ nOut = 0
    /\ pc = "top"
    /\ rec = <<>>
    /\ nextRec = <<>>
    /\ nextP = <<>>
    /\ payload = <<>>
    /\ limit = 0
    /\ timer = 0
    /\ waited = 0
    /\ startQ = <<>>
    /\ startP = <<>>
    /\ written = <<>>
    /\ lastWrite = <<>>
    /\ received = <<>>
    /\ returned = <<>>
    /\ recvDone = FALSE
    /\ sendRet = ""
    /\ exited = FALSE
    /\ faults = MaxFaults
    /\ OtherIdle

NextIO ==
    \/ \E c \in IOCases : Len(received) < MaxQueries /\ RecvLoop(c)
    \/ Len(received) < MaxQueries /\ RecvGarbage
    \/ \E kind \in {"temporary", "permanent"} : ReadFromError(kind)
    \/ SendLoop
    \/ SendLoopClosed
    \/ SendLoopNextRecClosed
    \/ Tick
    \/ CloseConn
    \/ ProcessExit

\* sendLoop is a goroutine that runs whenever it can, and time passes;
\* main returns once run has.  Nothing is assumed of the datagrams and of
\* the errors of the socket.
FairIO ==
    /\ WF_vars(SendLoop \/ SendLoopClosed \/ SendLoopNextRecClosed \/ Tick)
    /\ WF_vars(ProcessExit)

SpecIO == InitIO /\ [][NextIO]_vars /\ FairIO

\* The two loops of loop up to their return, with the close of dnsConn
\* that follows the return of loop.
NextLoop ==
    \/ \E c \in IOCases : Len(received) < MaxQueries /\ RecvLoop(c)
    \/ Len(received) < MaxQueries /\ RecvGarbage
    \/ \E kind \in {"temporary", "permanent"} : ReadFromError(kind)
    \/ SendLoop
    \/ SendLoopClosed
    \/ SendLoopNextRecClosed
    \/ Tick
    \/ CloseConn

FairLoop == WF_vars(SendLoop \/ SendLoopClosed \/ SendLoopNextRecClosed \/ Tick)

SpecLoop == InitIO /\ [][NextLoop]_vars /\ FairLoop

\* The UDP loops when ch holds a backlog of chanCap - 1 records: recvLoop
\* has put them on ch and sendLoop has not run since.
FullCases == {caseA, caseForeign}

InitFull ==
    /\ ch = Backlog(chanCap - 1)
    /\ accepted = [k \in 1..Len(ch) |-> ch[k].Addr]
    /\ incoming = <<>>
    /\ outgoing = [c \in ClientIDs |-> <<>>]
    /\ nOut = 0
    /\ pc = "top"
    /\ rec = <<>>
    /\ nextRec = <<>>
    /\ nextP = <<>>
    /\ payload = <<>>
    /\ limit = 0
    /\ timer = 0
    /\ waited = 0
    /\ startQ = <<>>
    /\ startP = <<>>
    /\ written = <<>>
    /\ lastWrite = <<>>
    /\ received = <<>>
    /\ returned = <<>>
    /\ recvDone = FALSE
    /\ sendRet = ""
    /\ exited = FALSE
    /\ faults = 0
    /\ OtherIdle

NextFull ==
    \/ \E c \in FullCases : Len(received) < MaxQueries /\ RecvLoop(c)
    \/ SendLoop
    \/ Tick

SpecFull == InitFull /\ [][NextFull]_vars

\* The UDP loops when the outgoing queue of client A holds more than one
\* bundle takes and the socket reports errors: the queries are a tunnel
\* query of client A, a query for a name of another domain and a query
\* with EDNS version 1.
caseBadVers == Case(11, 0, 1, RRTypeTXT,
                    NameDesc(idA, <<>>, <<>>, FALSE, 63, FALSE, domain),
                    <<OPT(4096, 1)>>)

CarryCases == {caseA, caseForeign, caseBadVers}

CarryQueue ==
    <<OutPacket(idA, 1, maxEncodedPayload - 2), OutPacket(idA, 2, 100),
      OutPacket(idA, 3, 100)>>

InitCarry ==
    /\ ch = <<>>
    /\ accepted = <<>>
    /\ incoming = <<>>
    /\ outgoing = [c \in ClientIDs |-> IF c = idA THEN CarryQueue ELSE <<>>]
    /\ nOut = Len(CarryQueue)
    /\ pc = "top"
    /\ rec = <<>>
    /\ nextRec = <<>>
    /\ nextP = <<>>
    /\ payload = <<>>
    /\ limit = 0
    /\ timer = 0
    /\ waited = 0
    /\ startQ = <<>>
    /\ startP = <<>>
    /\ written = <<>>
    /\ lastWrite = <<>>
    /\ received = <<>>
    /\ returned = <<>>
    /\ recvDone = FALSE
    /\ sendRet = ""
    /\ exited = FALSE
    /\ faults = MaxFaults
    /\ OtherIdle

NextCarry ==
    \/ \E c \in CarryCases : Len(received) < MaxQueries + 1 /\ RecvLoop(c)
    \/ \E n \in PktLens : KcpWrite(idA, n)
    \/ SendLoop
    \/ Tick

SpecCarry == InitCarry /\ [][NextCarry]_vars

\* The UDP loops with a transport that never stops writing packets for
\* client A: a tunnel query of A, whose response takes a bundle, then a
\* query for a name of another domain.  sendLoop is scheduled and time
\* passes; nothing is assumed of recvLoop or of the transport.
RefillQueries == <<caseA, caseForeign>>

InitRefill ==
    /\ ch = <<>>
    /\ accepted = <<>>
    /\ incoming = <<>>
    /\ outgoing = [c \in ClientIDs |-> <<>>]
    /\ nOut = 0
    /\ pc = "top"
    /\ rec = <<>>
    /\ nextRec = <<>>
    /\ nextP = <<>>
    /\ payload = <<>>
    /\ limit = 0
    /\ timer = 0
    /\ waited = 0
    /\ startQ = <<>>
    /\ startP = <<>>
    /\ written = <<>>
    /\ lastWrite = <<>>
    /\ received = <<>>
    /\ returned = <<>>
    /\ recvDone = FALSE
    /\ sendRet = ""
    /\ exited = FALSE
    /\ faults = 0
    /\ OtherIdle

NextRefill ==
    \/ /\ Len(received) < Len(RefillQueries)
       /\ RecvLoop(RefillQueries[Len(received) + 1])
    \/ \E n \in RefillLens : Refill(idA, n)
    \/ SendLoop
    \/ Tick

FairRefill == WF_vars(SendLoop \/ Tick)

SpecRefill == InitRefill /\ [][NextRefill]_vars /\ FairRefill

(***************************************************************************)
(* The framing on its own: nextPacket applied again and again to a reader, *)
(* and the writer of bundles of sendLoop.                                  *)
(***************************************************************************)
\* The number of items (packets and runs of padding) of an input.
MaxItems == 2

\* The items: packets of 0, 1, 2 and 223 bytes, padding of 0, 1, 2 and 31
\* bytes.
ItemKinds ==
    { Pkt(<<>>), Pkt(<<7>>), Pkt(<<7, 8>>), Pkt(Repeat(9, 223)),
      Pad(0), Pad(1), Pad(2), Pad(31) }

ItemSeqs == UNION { [1..n -> ItemKinds] : n \in 0..MaxItems }

\* The ways an input ends: at the end of an item, or within one: a prefix
\* that announces padding or a packet, and fewer bytes than it announces.
Cuts ==
    { <<>>, <<225>>, <<226, 0>>, <<255>> \o Repeat(0, 30),
      <<1>>, <<2, 9>>, <<223>> \o Repeat(9, 222) }

\* The inputs: items written in the format nextPacket reads and then cut
\* (writer "peer"), or the packets among the items written by sendLoop
\* into a bundle (writer "sendLoop").
Inputs ==
    { [writer |-> "peer", items |-> items, cut |-> cut] :
        items \in ItemSeqs, cut \in Cuts }
    \cup { [writer |-> "sendLoop", items |-> items, cut |-> <<>>] :
             items \in ItemSeqs }

\* The UDP loops before they have done anything, but for payload and
\* limit, which the writer of bundles uses.
LoopsIdle ==
    /\ ch = <<>>
    /\ incoming = <<>>
    /\ outgoing = [c \in ClientIDs |-> <<>>]
    /\ nOut = 0
    /\ pc = "top"
    /\ rec = <<>>
    /\ nextRec = <<>>
    /\ nextP = <<>>
    /\ timer = 0
    /\ waited = 0
    /\ startQ = <<>>
    /\ startP = <<>>
    /\ written = <<>>
    /\ lastWrite = <<>>
    /\ received = <<>>
    /\ returned = <<>>
    /\ accepted = <<>>
    /\ recvDone = FALSE
    /\ sendRet = ""
    /\ exited = FALSE
    /\ faults = 0

loopsVars == <<ch, incoming, outgoing, nOut, pc, rec, nextRec, nextP, timer,
               waited, startQ, startP, written, lastWrite, received, returned,
               accepted, recvDone, sendRet, exited, faults>>

InitNP ==
    /\ LoopsIdle
    /\ FabricIdle
    /\ KeygenIdle
    /\ MainIdle
    /\ input \in Inputs
    /\ results = <<>>
    /\ payload = <<>>
    /\ limit = BundleStart(<<>>).limit
    /\ toWrite = IF input.writer = "sendLoop" THEN PktsOf(input.items) ELSE <<>>
    /\ reader = IF input.writer = "peer"
                THEN FrameItems(input.items) \o input.cut
                ELSE <<>>

\* sendLoop appends a packet to the bundle, as in its bundling loop when
\* the packet is not too large for the limit.
WriteBundle ==
    /\ toWrite # <<>>
    /\ ~TooLarge(Head(toWrite), limit)
    /\ limit' = limit - (2 + Len(Head(toWrite)))
    /\ payload' = payload \o Frame(Head(toWrite))
    /\ toWrite' = Tail(toWrite)
    /\ UNCHANGED <<input, reader, results>>
    /\ UNCHANGED loopsVars
    /\ UNCHANGED <<fabricVars, keygenVars, mainVars>>

\* The bundle is written: it is given to a reader.
ReadBundle ==
    /\ input.writer = "sendLoop"
    /\ toWrite = <<>>
    /\ payload # <<>>
    /\ reader = <<>>
    /\ results = <<>>
    /\ reader' = payload
    /\ UNCHANGED <<input, toWrite, results, payload, limit>>
    /\ UNCHANGED loopsVars
    /\ UNCHANGED <<fabricVars, keygenVars, mainVars>>

\* p, err := nextPacket(r), as long as no call has returned an error.
NextPacketCall ==
    /\ toWrite = <<>>
    /\ (input.writer = "sendLoop" /\ results = <<>>) => reader = payload
    /\ IF results = <<>> THEN TRUE ELSE results[Len(results)].err = "nil"
    /\ LET np == nextPacket(reader)
       IN  /\ results' = Append(results, [p |-> np.p, err |-> np.err])
           /\ reader' = np.rest
    /\ UNCHANGED <<input, toWrite, payload, limit>>
    /\ UNCHANGED loopsVars
    /\ UNCHANGED <<fabricVars, keygenVars, mainVars>>

NextNP ==
    \/ WriteBundle
    \/ ReadBundle
    \/ NextPacketCall

SpecNP == InitNP /\ [][NextNP]_vars

(***************************************************************************)
(* The sessions and streams: acceptSessions, acceptStreams, handleStream.  *)
(***************************************************************************)
\* The numbers of sessions and of streams accepted, and of temporary
\* errors of ln.AcceptKCP and sess.AcceptStream.
MaxSessions == 2

MaxStreams == 2

MaxRetries == 1

\* A session when ln.AcceptKCP has returned it and its goroutine starts:
\* acceptStreams is about to call noise.NewServer.
NewSession == [at |-> "noise", connClosed |-> FALSE]

\* A stream when sess.AcceptStream has returned it and its goroutine
\* starts: handleStream is about to dial.  up is the copy stream<-upstream,
\* down the copy upstream<-stream; streamFin: the client has closed the
\* stream; connFin: the upstream has closed the connection.
NewStream(i) ==
    [sess |-> i, dial |-> "", up |-> "", down |-> "", streamClosed |-> FALSE,
     connClosed |-> FALSE, streamFin |-> FALSE, connFin |-> FALSE, ret |-> ""]

\* A variant of EndSession that leaves conn open.
EndSessionLeaveOpen(s) == [s EXCEPT !.at = "returned"]

\* acceptStreams returns an error: the goroutine logs it and its deferred
\* function calls conn.Close().
EndSession(s) == [s EXCEPT !.at = "returned", !.connClosed = TRUE]

\* conn, err := ln.AcceptKCP() in acceptSessions: a session, for which a
\* goroutine is started; a temporary error, after which the loop goes on;
\* or another error, which acceptSessions returns.
AcceptKCP(outcome) ==
    /\ lnRet = ""
    /\ CASE outcome = "ok" ->
             /\ Len(sessions) < MaxSessions
             /\ sessions' = Append(sessions, NewSession)
             /\ UNCHANGED <<lnRet, retries>>
         [] outcome = "temporary" ->
             /\ retries < MaxRetries
             /\ retries' = retries + 1
             /\ UNCHANGED <<lnRet, sessions>>
         [] OTHER ->
             /\ lnRet' = "error"
             /\ UNCHANGED <<sessions, retries>>
    /\ UNCHANGED streams
    /\ UNCHANGED <<loopsVars, payload, limit, framingVars, keygenVars, mainVars>>

\* rw, err := noise.NewServer(conn, privkey, pubkey) in acceptStreams.
NoiseNewServer(i, ok) ==
    /\ i \in 1..Len(sessions)
    /\ sessions[i].at = "noise"
    /\ sessions' = [sessions EXCEPT ![i] =
                       IF ok THEN [@ EXCEPT !.at = "smux"] ELSE EndSession(@)]
    /\ UNCHANGED <<lnRet, streams, retries>>
    /\ UNCHANGED <<loopsVars, payload, limit, framingVars, keygenVars, mainVars>>

\* sess, err := smux.Server(rw, smuxConfig) in acceptStreams.
SmuxServer(i, ok) ==
    /\ i \in 1..Len(sessions)
    /\ sessions[i].at = "smux"
    /\ sessions' = [sessions EXCEPT ![i] =
                       IF ok THEN [@ EXCEPT !.at = "accept"] ELSE EndSession(@)]
    /\ UNCHANGED <<lnRet, streams, retries>>
    /\ UNCHANGED <<loopsVars, payload, limit, framingVars, keygenVars, mainVars>>

\* stream, err := sess.AcceptStream() in acceptStreams: a stream, for
\* which a goroutine is started; a temporary error, after which the loop
\* goes on; or another error, which acceptStreams returns.
AcceptStream(i, outcome) ==
    /\ i \in 1..Len(sessions)
    /\ sessions[i].at = "accept"
    /\ CASE outcome = "ok" ->
             /\ Len(streams) < MaxStreams
             /\ streams' = Append(streams, NewStream(i))
             /\ UNCHANGED <<sessions, retries>>
         [] outcome = "temporary" ->
             /\ retries < MaxRetries
             /\ retries' = retries + 1
             /\ UNCHANGED <<sessions, streams>>
         [] OTHER ->
             /\ sessions' = [sessions EXCEPT ![i] = EndSession(@)]
             /\ UNCHANGED <<streams, retries>>
    /\ UNCHANGED lnRet
    /\ UNCHANGED <<loopsVars, payload, limit, framingVars, keygenVars, mainVars>>

\* conn, err := net.DialTCP("tcp", nil, upstream) in handleStream.  On an
\* error handleStream returns it, and the deferred function of the
\* stream's goroutine closes the stream; else the two copies are started.
Dial(st, ok) ==
    IF ok
    THEN [st EXCEPT !.dial = "ok", !.up = "running", !.down = "running"]
    ELSE [st EXCEPT !.dial = "failed", !.ret = "error", !.streamClosed = TRUE]

DialTCP(k, ok) ==
    /\ k \in 1..Len(streams)
    /\ streams[k].dial = ""
    /\ streams' = [streams EXCEPT ![k] = Dial(@, ok)]
    /\ UNCHANGED <<lnRet, sessions, retries>>
    /\ UNCHANGED <<loopsVars, payload, limit, framingVars, keygenVars, mainVars>>

\* The client closes its end of the stream, or the upstream its end of
\* the connection.
PeerCloses(k, end) ==
    /\ k \in 1..Len(streams)
    /\ streams[k].ret = ""
    /\ IF end = "stream"
       THEN /\ ~streams[k].streamFin
            /\ streams' = [streams EXCEPT ![k].streamFin = TRUE]
       ELSE /\ streams[k].dial = "ok"
            /\ ~streams[k].connFin
            /\ streams' = [streams EXCEPT ![k].connFin = TRUE]
    /\ UNCHANGED <<lnRet, sessions, retries>>
    /\ UNCHANGED <<loopsVars, payload, limit, framingVars, keygenVars, mainVars>>

\* The stream can be read or written no more: it is closed, or the conn of
\* its session is.
StreamDead(st) == st.streamClosed \/ sessions[st.sess].connClosed

\* A variant of EndUp that leaves the stream open.
EndUpLeaveOpen(st) == [st EXCEPT !.up = "done"]

\* io.Copy(stream, conn) has returned: stream.Close().
EndUp(st) == [st EXCEPT !.up = "done", !.streamClosed = TRUE]

\* The goroutine of the copy stream<-upstream: io.Copy(stream, conn)
\* returns when reading conn ends (the upstream closed it, or conn is
\* closed) or writing the stream fails.
CopyUpReturns(k) ==
    /\ k \in 1..Len(streams)
    /\ streams[k].up = "running"
    /\ streams[k].connFin \/ streams[k].connClosed \/ StreamDead(streams[k])
    /\ streams' = [streams EXCEPT ![k] = EndUp(@)]
    /\ UNCHANGED <<lnRet, sessions, retries>>
    /\ UNCHANGED <<loopsVars, payload, limit, framingVars, keygenVars, mainVars>>

\* The goroutine of the copy upstream<-stream: io.Copy(conn, stream)
\* returns when reading the stream ends (the client closed it, or the
\* stream is dead) or writing conn fails; then conn.Close().
CopyDownReturns(k) ==
    /\ k \in 1..Len(streams)
    /\ streams[k].down = "running"
    /\ streams[k].streamFin \/ StreamDead(streams[k]) \/ streams[k].connClosed
    /\ streams' = [streams EXCEPT ![k].down = "done", ![k].connClosed = TRUE]
    /\ UNCHANGED <<lnRet, sessions, retries>>
    /\ UNCHANGED <<loopsVars, payload, limit, framingVars, keygenVars, mainVars>>

\* wg.Wait() returns in handleStream, which returns nil: its deferred
\* conn.Close() and the deferred stream.Close() of the goroutine run.
HandleStreamReturns(k) ==
    /\ k \in 1..Len(streams)
    /\ streams[k].ret = ""
    /\ streams[k].up = "done"
    /\ streams[k].down = "done"
    /\ streams' = [streams EXCEPT ![k].ret = "nil", ![k].connClosed = TRUE,
                                  ![k].streamClosed = TRUE]
    /\ UNCHANGED <<lnRet, sessions, retries>>
    /\ UNCHANGED <<loopsVars, payload, limit, framingVars, keygenVars, mainVars>>

InitFabric ==
    /\ LoopsIdle
    /\ payload = <<>>
    /\ limit = 0
    /\ FramingIdle
    /\ FabricIdle
    /\ KeygenIdle
    /\ MainIdle

NextFabric ==
    \/ \E outcome \in {"ok", "temporary", "error"} : AcceptKCP(outcome)
    \/ \E i \in 1..MaxSessions : \E ok \in BOOLEAN : NoiseNewServer(i, ok)
    \/ \E i \in 1..MaxSessions : \E ok \in BOOLEAN : SmuxServer(i, ok)
    \/ \E i \in 1..MaxSessions :
          \E outcome \in {"ok", "temporary", "error"} : AcceptStream(i, outcome)
    \/ \E k \in 1..MaxStreams : \E ok \in BOOLEAN : DialTCP(k, ok)
    \/ \E k \in 1..MaxStreams : \E end \in {"stream", "conn"} : PeerCloses(k, end)
    \/ \E k \in 1..MaxStreams : CopyUpReturns(k)
    \/ \E k \in 1..MaxStreams : CopyDownReturns(k)
    \/ \E k \in 1..MaxStreams : HandleStreamReturns(k)

\* The goroutines of a stream run whenever they can.
FairFabric ==
    \A k \in 1..MaxStreams :
        /\ WF_vars(CopyUpReturns(k))
        /\ WF_vars(CopyDownReturns(k))
        /\ WF_vars(HandleStreamReturns(k))

SpecFabric == InitFabric /\ [][NextFabric]_vars /\ FairFabric

(***************************************************************************)
(* -gen-key mode: generateKeypair and the exit of main.                    *)
(***************************************************************************)
\* The file of generateKeypair's first or second block, and the key
\* written to it.
FileOf(kg, which) == IF which = "priv" THEN kg.privkeyFilename ELSE kg.pubkeyFilename

KeyOf(which) == IF which = "priv" THEN "privkey" ELSE "pubkey"

\* Where generateKeypair goes after the block of a file.
AfterFile(which) == IF which = "priv" THEN "pub" ELSE "good"

\* A variant of NoteCreated that forgets the file.
NoteCreatedForgets(toDelete, filename) == toDelete

\* toDelete = append(toDelete, filename)
NoteCreated(toDelete, filename) == Append(toDelete, filename)

\* generateKeypair is called in -gen-key mode, with each file name given
\* or not, and each file there already or not.
InitKey ==
    /\ LoopsIdle
    /\ payload = <<>>
    /\ limit = 0
    /\ FramingIdle
    /\ FabricIdle
    /\ \E pr \in {"", "priv.key"}, pu \in {"", "pub.key", "priv.key"} :
          keygen = [at |-> "start", privkeyFilename |-> pr, pubkeyFilename |-> pu,
                    toDelete |-> <<>>, i |-> 1, err |-> "nil", created |-> {},
                    kept |-> {}]
    /\ fs \in [FileNames -> {"absent", "old"}]
    /\ exitCode = <<>>
    /\ MainIdle

\* privkey, pubkey, err := noise.GenerateKeypair()
GenerateKeypair(ok) ==
    /\ keygen.at = "start"
    /\ keygen' = IF ok THEN [keygen EXCEPT !.at = "priv"]
                 ELSE [keygen EXCEPT !.at = "defer", !.err = "error"]
    /\ UNCHANGED <<fs, exitCode>>
    /\ UNCHANGED <<loopsVars, payload, limit, framingVars, fabricVars, mainVars>>

\* if privkeyFilename != "" / if pubkeyFilename != "": no file name.
NoFile(which) ==
    /\ keygen.at = which
    /\ FileOf(keygen, which) = ""
    /\ keygen' = [keygen EXCEPT !.at = AfterFile(which)]
    /\ UNCHANGED <<fs, exitCode>>
    /\ UNCHANGED <<loopsVars, payload, limit, framingVars, fabricVars, mainVars>>

\* f, err := os.Create(filename): on an error generateKeypair returns it;
\* else the file is there and empty, and is noted in toDelete.
Create(which, ok) ==
    /\ keygen.at = which
    /\ FileOf(keygen, which) # ""
    /\ IF ok
       THEN /\ fs' = [fs EXCEPT ![FileOf(keygen, which)] = "empty"]
            /\ keygen' = [keygen EXCEPT
                             !.at = which \o "Write",
                             !.toDelete = NoteCreated(@, FileOf(keygen, which)),
                             !.created = @ \cup {FileOf(keygen, which)}]
       ELSE /\ keygen' = [keygen EXCEPT !.at = "defer", !.err = "error"]
            /\ fs' = fs
    /\ UNCHANGED exitCode
    /\ UNCHANGED <<loopsVars, payload, limit, framingVars, fabricVars, mainVars>>

\* err = noise.WriteKey(f, key); if err2 := f.Close(); err == nil
\* { err = err2 }; if err != nil { return err }.
WriteKey(which, wrote, closed) ==
    /\ keygen.at = which \o "Write"
    /\ fs' = [fs EXCEPT ![FileOf(keygen, which)] =
                 IF wrote THEN KeyOf(which) ELSE "partial"]
    /\ keygen' = IF wrote /\ closed
                 THEN [keygen EXCEPT !.at = AfterFile(which)]
                 ELSE [keygen EXCEPT !.at = "defer", !.err = "error"]
    /\ UNCHANGED exitCode
    /\ UNCHANGED <<loopsVars, payload, limit, framingVars, fabricVars, mainVars>>

\* toDelete = nil, the keys not written to a file are printed, return nil.
AllGood ==
    /\ keygen.at = "good"
    /\ keygen' = [keygen EXCEPT !.at = "defer", !.toDelete = <<>>]
    /\ UNCHANGED <<fs, exitCode>>
    /\ UNCHANGED <<loopsVars, payload, limit, framingVars, fabricVars, mainVars>>

\* One turn of the deferred loop: os.Remove(filename).  It fails when the
\* file is not there, and it can fail with the file there (the system
\* refuses the removal): then "cannot remove" is printed, the file stays,
\* and the error becomes err when err is nil.
Remove(ok) ==
    /\ keygen.at = "defer"
    /\ keygen.i <= Len(keygen.toDelete)
    /\ LET filename == keygen.toDelete[keygen.i]
       IN  /\ fs[filename] = "absent" => ~ok
           /\ IF ok
              THEN /\ fs' = [fs EXCEPT ![filename] = "absent"]
                   /\ keygen' = [keygen EXCEPT !.i = @ + 1,
                                                !.kept = @ \ {filename}]
              ELSE /\ fs' = fs
                   /\ keygen' = [keygen EXCEPT
                                    !.i = @ + 1,
                                    !.err = IF @ = "nil" THEN "error" ELSE @,
                                    !.kept = IF fs[filename] = "absent" THEN @
                                             ELSE @ \cup {filename}]
    /\ UNCHANGED exitCode
    /\ UNCHANGED <<loopsVars, payload, limit, framingVars, fabricVars, mainVars>>

\* generateKeypair has returned err to main: os.Exit(1) on an error, else
\* main returns.
MainExits ==
    /\ keygen.at = "defer"
    /\ keygen.i > Len(keygen.toDelete)
    /\ keygen' = [keygen EXCEPT !.at = "returned"]
    /\ exitCode' = IF keygen.err # "nil" THEN <<1>> ELSE <<0>>
    /\ UNCHANGED fs
    /\ UNCHANGED <<loopsVars, payload, limit, framingVars, fabricVars, mainVars>>

NextKey ==
    \/ \E ok \in BOOLEAN : GenerateKeypair(ok)
    \/ \E which \in {"priv", "pub"} : NoFile(which)
    \/ \E which \in {"priv", "pub"} : \E ok \in BOOLEAN : Create(which, ok)
    \/ \E which \in {"priv", "pub"} :
          \E wrote, closed \in BOOLEAN : WriteKey(which, wrote, closed)
    \/ AllGood
    \/ \E ok \in BOOLEAN : Remove(ok)
    \/ MainExits

SpecKey == InitKey /\ [][NextKey]_vars

(***************************************************************************)
(* Server mode: main and run.                                              *)
(***************************************************************************)
\* The options and arguments main is started with in server mode: the
\* number of positional arguments, the file name options, -privkey, -udp.
ServerOptions ==
    [nargs : {1, 2}, pubkeyFilename : {"", "pub.key"},
     privkeyFilename : {"", "priv.key"}, privkeyString : {"", "hex"},
     udpAddr : {"", ":5300"}]

InitMain ==
    /\ LoopsIdle
    /\ payload = <<>>
    /\ limit = 0
    /\ FramingIdle
    /\ FabricIdle
    /\ keygen = [at |-> "idle"]
    /\ fs = [f \in FileNames |-> "absent"]
    /\ exitCode = <<>>
    /\ \E o \in ServerOptions :
          srv = [at |-> "args", opts |-> o, listening |-> FALSE]
    /\ connClosed = FALSE

\* main goes on to the step next when ok, else it reports the error and
\* calls os.Exit(1) (log.Fatal in the case of run's error).
StepOrExit(ok, next) ==
    /\ srv' = [srv EXCEPT !.at = IF ok THEN next ELSE "exited"]
    /\ exitCode' = IF ok THEN exitCode ELSE <<1>>
    /\ UNCHANGED <<keygen, fs, connClosed>>
    /\ UNCHANGED <<loopsVars, payload, limit, framingVars, fabricVars>>

\* if flag.NArg() != 2 { flag.Usage(); os.Exit(1) }
CheckNArg ==
    /\ srv.at = "args"
    /\ StepOrExit(srv.opts.nargs = 2, "domain")

\* domain, err := dns.ParseName(flag.Arg(0))
ParseName(ok) ==
    /\ srv.at = "domain"
    /\ StepOrExit(ok, "upstream")

\* upstream, err := net.ResolveTCPAddr("tcp", flag.Arg(1))
ResolveTCPAddr(ok) ==
    /\ srv.at = "upstream"
    /\ StepOrExit(ok, "options")

\* -pubkey-file is refused, and so are -privkey and -privkey-file
\* together.
CheckKeyOptions ==
    /\ srv.at = "options"
    /\ StepOrExit(/\ srv.opts.pubkeyFilename = ""
                  /\ ~(srv.opts.privkeyFilename # "" /\ srv.opts.privkeyString # ""),
                  "privkey")

\* The private key: readKeyFromFile, noise.DecodeKey or, without either
\* option, noise.GenerateKeypair.
GetPrivkey(ok) ==
    /\ srv.at = "privkey"
    /\ StepOrExit(ok, "run")

\* run: ln, err := kcp.ServeConn(nil, 0, 0, ttConn); on an error run
\* returns it and main calls log.Fatal.  Else acceptSessions is started.
ServeConn(ok) ==
    /\ srv.at = "run"
    /\ StepOrExit(ok, "udp")

\* run: if udpAddr != "" { dnsConn, err := net.ListenPacket("udp",
\* udpAddr) ... go loop }; wg.Wait(); return nil.  When udpAddr is empty
\* no listener is opened, wg.Wait() returns at once, run returns nil and
\* main returns.
ListenPacket(ok) ==
    /\ srv.at = "udp"
    /\ IF srv.opts.udpAddr # ""
       THEN /\ srv' = [srv EXCEPT !.at = IF ok THEN "serving" ELSE "exited",
                                  !.listening = ok]
            /\ exitCode' = IF ok THEN exitCode ELSE <<1>>
       ELSE /\ ok
            /\ srv' = [srv EXCEPT !.at = "exited"]
            /\ exitCode' = <<0>>
    /\ UNCHANGED <<keygen, fs, connClosed>>
    /\ UNCHANGED <<loopsVars, payload, limit, framingVars, fabricVars>>

\* loop returns (recvLoop has returned an error, which is logged): the
\* goroutine's deferred calls run last in, first out, wg.Done() of line
\* 622 before dnsConn.Close() of line 621.  After wg.Done(), wg.Wait()
\* returns, run returns nil and main returns, while the goroutine goes on
\* to dnsConn.Close(): at the exit of the process the listener has been
\* closed (closed) or has not.
LoopReturns(closed) ==
    /\ srv.at = "serving"
    /\ srv' = [srv EXCEPT !.at = "exited"]
    /\ exitCode' = <<0>>
    /\ connClosed' = closed
    /\ UNCHANGED <<keygen, fs>>
    /\ UNCHANGED <<loopsVars, payload, limit, framingVars, fabricVars>>

NextMain ==
    \/ CheckNArg
    \/ \E ok \in BOOLEAN : ParseName(ok)
    \/ \E ok \in BOOLEAN : ResolveTCPAddr(ok)
    \/ CheckKeyOptions
    \/ \E ok \in BOOLEAN : GetPrivkey(ok)
    \/ \E ok \in BOOLEAN : ServeConn(ok)
    \/ \E ok \in BOOLEAN : ListenPacket(ok)
    \/ \E closed \in BOOLEAN : LoopReturns(closed)

SpecMain == InitMain /\ [][NextMain]_vars

(***************************************************************************)
(* Properties of the datagrams written (sendLoop).                         *)
(***************************************************************************)
\* C1: every datagram sendLoop writes is at most 1232 bytes long, and when
\* the serialized response was longer than 1232 bytes the datagram is
\* exactly 1232 bytes long and has the TC bit (0x0200 of the flags) set.
DatagramsFitUDP ==
    /\ \A i \in 1..Len(written) : written[i].Len <= 1232
    /\ lastWrite # <<>> =>
         /\ lastWrite[1].Len <= 1232
         /\ lastWrite[1].WireLen > 1232 =>
              /\ lastWrite[1].Len = 1232
              /\ BitAnd(lastWrite[1].Flags, 512) = 512
         /\ lastWrite[1].WireLen <= 1232 =>
              /\ lastWrite[1].Len = lastWrite[1].WireLen
              /\ lastWrite[1].Flags = lastWrite[1].Msg.Flags

\* A response longer than 1232 bytes has been written, cut, after one
\* that was not.
TruncatedWritten ==
    /\ Len(written) = 2
    /\ written[1].Len < 1232
    /\ lastWrite[1].WireLen > 1232
    /\ lastWrite[1].Len = 1232
    /\ BitAnd(lastWrite[1].Msg.Flags, 512) = 0
    /\ BitAnd(lastWrite[1].Flags, 512) = 512

(***************************************************************************)
(* What a query is, read off its case, and what a response says.           *)
(***************************************************************************)
\* The query of the behaviours of SpecRF, once it is received.
theCase == received[1]

IsResponse(c) == (c.flags \div 32768) % 2 = 1

OpcodeOf(c) == (c.flags \div 2048) % 16

\* The OPT RRs of the query, in order, and the EDNS version of one.
OPTsOf(c) == SelectSeq(c.additional, LAMBDA rr : rr.Type = 41)

VersionOf(rr) == (rr.TTL \div 65536) % 256

\* The payload size the query advertises: that of its OPT RR, 512 when
\* it has none or advertises less.
AdvertisedSize(c) ==
    IF OPTsOf(c) = <<>> \/ OPTsOf(c)[1].Class < 512 THEN 512
    ELSE OPTsOf(c)[1].Class

\* The name is under the server's domain.
UnderDomain(c) == c.nd.suffix \in {domain, upperDomain}

\* The bytes the labels before the suffix encode.
EncodedBytes(c) == c.nd.head \o FrameItems(c.nd.items) \o c.nd.tail

\* The labels before the suffix, in upper case, are not base32: a
\* character was replaced by '1', or by a rune whose upper case is not of
\* the alphabet.
NotBase32(c) ==
    \/ c.nd.bad
    \/ c.nd.rune # 0 /\ UnicodeToUpper(c.nd.rune) \notin (65..90) \cup (50..55)

\* The name is valid base32 of at least a ClientID.
HasClientID(c) == ~NotBase32(c) /\ Len(EncodedBytes(c)) >= 8

\* The number of OPT RRs in the Additional section of a message.
OPTCount(m) == Cardinality({i \in 1..Len(m.Additional) : m.Additional[i].Type = 41})

\* The RCODE of a response: the low four bits of the flags, extended by
\* the upper eight bits of the TTL of its OPT RR (RFC 6891, 6.1.3).
FullRcode(m) ==
    LET opts == SelectSeq(m.Additional, LAMBDA rr : rr.Type = 41)
    IN  (m.Flags % 16) + 16 * (IF opts = <<>> THEN 0 ELSE opts[1].TTL \div 16777216)

AAOf(m) == (m.Flags \div 1024) % 2

\* The responses to the last query: the one responseFor returned and,
\* under SpecRF, the one sendLoop serialized.
Responses ==
    (IF returned # <<>> /\ returned[1].resp # <<>> THEN {returned[1].resp[1]} ELSE {})
    \cup (IF lastWrite # <<>> THEN {lastWrite[1].Msg} ELSE {})

(***************************************************************************)
(* Properties of responseFor and recvLoop, for every query of AllCases.    *)
(***************************************************************************)
\* C2: a response has the ID of its query and the Questions of its query,
\* unchanged, and it has an OPT RR exactly when the query has at least
\* one, and never more than one.
ResponseEchoesQuery ==
    received # <<>> =>
        \A m \in Responses :
            /\ m.ID = theCase.id
            /\ Len(m.Question) = theCase.nq
            /\ m.Question = BuildQuery(theCase).Question
            /\ OPTCount(m) = (IF OPTsOf(theCase) = <<>> THEN 0 ELSE 1)
            /\ OPTCount(m) = Len(m.Additional)

\* The response to a query with three Additional RRs, two of them OPT
\* RRs, has been written: it has one OPT RR.
EchoWritten ==
    /\ lastWrite # <<>>
    /\ Len(theCase.additional) = 3
    /\ Len(OPTsOf(theCase)) = 2
    /\ theCase.id = 7
    /\ lastWrite[1].Msg.ID = 7
    /\ OPTCount(lastWrite[1].Msg) = 1
    /\ Len(lastWrite[1].Msg.Question) = 1

\* C3: every packet passed to QueueIncoming comes from a query that passed
\* every check: it is answered with NOERROR, its name is under the domain
\* and encodes at least the 8 bytes of a ClientID.  So for a query that
\* is answered with FORMERR, NOTIMPL, NXDOMAIN or BADVERS, and for one
\* with QR = 1 (no response), responseFor returns an empty payload and no
\* packet is enqueued.
OnlyValidatedQueriesEnqueue ==
    /\ incoming # <<>> =>
         /\ UnderDomain(theCase)
         /\ HasClientID(theCase)
         /\ ~IsResponse(theCase)
         /\ \A m \in Responses : FullRcode(m) = 0
    /\ returned # <<>> =>
         /\ returned[1].payload # <<>> =>
              /\ returned[1].resp # <<>>
              /\ FullRcode(returned[1].resp[1]) = 0
         /\ returned[1].resp = <<>> =>
              IsResponse(theCase) /\ returned[1].payload = <<>> /\ incoming = <<>>
         /\ \A m \in Responses :
              FullRcode(m) \in {1, 3, 4, 16} =>
                  returned[1].payload = <<>> /\ incoming = <<>>

\* A query whose name carries packets under the domain has been answered
\* with FORMERR (it advertises less than 1232 bytes) and nothing has
\* been enqueued.
ErrorWithoutEnqueue ==
    /\ lastWrite # <<>>
    /\ FullRcode(lastWrite[1].Msg) = 1
    /\ UnderDomain(theCase)
    /\ HasClientID(theCase)
    /\ PktsOf(theCase.nd.items) # <<>>
    /\ Len(OPTsOf(theCase)) = 1
    /\ returned[1].payload = <<>>
    /\ incoming = <<>>

\* The query passes the checks responseFor makes before it looks at the
\* name: QR = 0, at most one OPT RR and that of EDNS version 0, exactly
\* one Question.
PassesHeaderChecks(c) ==
    /\ ~IsResponse(c)
    /\ Len(OPTsOf(c)) <= 1
    /\ \A i \in 1..Len(OPTsOf(c)) : VersionOf(OPTsOf(c)[i]) = 0
    /\ c.nq = 1

\* C4, as claimed: the response to a query whose Question name is not
\* under the domain has RCODE NXDOMAIN and AA = 0, and no packet is
\* enqueued.
ForeignNameGetsNameError ==
    (received # <<>> /\ theCase.nq >= 1 /\ ~UnderDomain(theCase)) =>
        /\ incoming = <<>>
        /\ \A m \in Responses : FullRcode(m) = 3 /\ AAOf(m) = 0

\* C4, corrected: for a query whose Question name is not under the domain
\* no packet is enqueued and a response has AA = 0; when the query passes
\* the checks made before the name is looked at (QR = 0, at most one OPT
\* RR and that of version 0, exactly one Question), there is a response
\* and its RCODE is NXDOMAIN, whatever the OPCODE, the QTYPE and the
\* advertised payload size.
ForeignNameAfterHeaderChecks ==
    (received # <<>> /\ theCase.nq >= 1 /\ ~UnderDomain(theCase)) =>
        /\ incoming = <<>>
        /\ \A m \in Responses : AAOf(m) = 0
        /\ PassesHeaderChecks(theCase) =>
             /\ returned[1].resp # <<>>
             /\ \A m \in Responses : FullRcode(m) = 3

\* A query for a foreign name with OPCODE 1, QTYPE A and an advertised
\* size of 512 has been answered with NXDOMAIN and AA = 0.
ForeignNameAnswered ==
    /\ lastWrite # <<>>
    /\ ~UnderDomain(theCase)
    /\ OpcodeOf(theCase) = 1
    /\ theCase.qtype = 1
    /\ Len(OPTsOf(theCase)) = 1
    /\ AdvertisedSize(theCase) = 512
    /\ FullRcode(lastWrite[1].Msg) = 3
    /\ AAOf(lastWrite[1].Msg) = 0
    /\ incoming = <<>>

\* C5, as claimed: the response to a query with two or more OPT RRs has
\* RCODE FORMERR, and no packet is enqueued.
TwoOPTsGetFormErr ==
    (received # <<>> /\ Len(OPTsOf(theCase)) >= 2) =>
        /\ incoming = <<>>
        /\ \A m \in Responses : FullRcode(m) = 1

\* The response to a query with two OPT RRs has been written and its
\* RCODE is BADVERS: the first OPT RR has EDNS version 1.
TwoOPTsGotBadVers ==
    /\ lastWrite # <<>>
    /\ Len(OPTsOf(theCase)) = 2
    /\ VersionOf(OPTsOf(theCase)[1]) = 1
    /\ FullRcode(lastWrite[1].Msg) = 16
    /\ lastWrite[1].Msg.Flags % 16 = 0

\* The calls of QueueIncoming the packets of the name ask for: one for
\* each packet among the framed items, in order, under the ClientID.
ExpectedIncoming(c) ==
    [i \in 1..Len(PktsOf(c.nd.items)) |->
        [p |-> PktsOf(c.nd.items)[i], clientID |-> c.nd.head]]

\* The response to the last query is on its way: on the channel, with
\* sendLoop, or written.
ResponseEmitted ==
    /\ returned # <<>>
    /\ returned[1].resp # <<>>
    /\ ch # <<>> \/ rec # <<>> \/ lastWrite # <<>>

\* C6, as claimed: for a query that advertises at least 1232 bytes, whose
\* name encodes at least a ClientID and whose QTYPE is TXT, a response is
\* emitted and the packets framed after the ClientID are enqueued under
\* the ClientID, in order.
TunnelQueryEnqueues ==
    (received # <<>> /\ theCase.nq >= 1 /\ AdvertisedSize(theCase) >= 1232
        /\ HasClientID(theCase) /\ theCase.qtype = 16) =>
        /\ ResponseEmitted
        /\ incoming = ExpectedIncoming(theCase)

\* C6, corrected: the same for a query that moreover has QR = 0 and
\* OPCODE QUERY, exactly one Question, its name under the domain, and
\* exactly one OPT RR, of EDNS version 0; the response is NOERROR with
\* AA = 1.
ValidTunnelQueryEnqueues ==
    (received # <<>> /\ PassesHeaderChecks(theCase) /\ UnderDomain(theCase)
        /\ OpcodeOf(theCase) = 0 /\ theCase.qtype = 16 /\ HasClientID(theCase)
        /\ AdvertisedSize(theCase) >= 1232) =>
        /\ ResponseEmitted
        /\ \A m \in Responses : FullRcode(m) = 0 /\ AAOf(m) = 1
        /\ returned[1].clientID = theCase.nd.head
        /\ incoming = ExpectedIncoming(theCase)

\* The response to a query that advertises exactly 1232 bytes, with three
\* packets (one of them empty) and padding in its name, has been written,
\* and the three packets have been enqueued in order.
ThreePacketsEnqueued ==
    /\ lastWrite # <<>>
    /\ FullRcode(lastWrite[1].Msg) = 0
    /\ AdvertisedSize(theCase) = 1232
    /\ theCase.nd.items = fewItems
    /\ Len(incoming) = 3
    /\ incoming[1].p = <<10, 11, 12>>
    /\ incoming[2].p = <<>>
    /\ incoming[3].p = <<20, 21>>
    /\ \A i \in 1..3 : incoming[i].clientID = idA

\* The RCODE and the AA bit (-1: not said) of the first failing check, the
\* checks taken in the order: more than one OPT RR, EDNS version not 0,
\* Question count, suffix, OPCODE, QTYPE, base32, ClientID, advertised
\* size.
FirstFailingCheck(c) ==
    IF Len(OPTsOf(c)) > 1 THEN [rcode |-> 1, aa |-> -1]
    ELSE IF \E i \in 1..Len(OPTsOf(c)) : VersionOf(OPTsOf(c)[i]) # 0
    THEN [rcode |-> 16, aa |-> -1]
    ELSE IF c.nq # 1 THEN [rcode |-> 1, aa |-> -1]
    ELSE IF ~UnderDomain(c) THEN [rcode |-> 3, aa |-> 0]
    ELSE IF OpcodeOf(c) # 0 THEN [rcode |-> 4, aa |-> 1]
    ELSE IF c.qtype # 16 THEN [rcode |-> 3, aa |-> 1]
    ELSE IF NotBase32(c) THEN [rcode |-> 3, aa |-> 1]
    ELSE IF Len(EncodedBytes(c)) < 8 THEN [rcode |-> 3, aa |-> 1]
    ELSE IF AdvertisedSize(c) < 1232 THEN [rcode |-> 1, aa |-> 1]
    ELSE [rcode |-> 0, aa |-> 1]

\* The response to the query of case c is as e says.
AnsweredAs(c, e) ==
    /\ returned[1].resp # <<>>
    /\ \A m \in Responses :
         /\ FullRcode(m) = e.rcode
         /\ e.aa >= 0 => AAOf(m) = e.aa

\* C7, as claimed: the RCODE and the AA bit of the response to a query
\* with QR = 0 are those of the first failing check in the order of
\* FirstFailingCheck, NOERROR and AA = 1 when no check fails.
FirstFailingCheckDecides ==
    (received # <<>> /\ ~IsResponse(theCase)) =>
        AnsweredAs(theCase, FirstFailingCheck(theCase))

\* The query has several OPT RRs and the first is not of version 0: the
\* queries for which responseFor returns BADVERS before it has seen the
\* second OPT RR (C5).
BadVersBeforeSecondOPT(c) ==
    Len(OPTsOf(c)) > 1 /\ VersionOf(OPTsOf(c)[1]) # 0

\* C7 for all other queries: there the first failing check decides.
FirstFailingCheckDecidesElsewhere ==
    (received # <<>> /\ ~IsResponse(theCase) /\ ~BadVersBeforeSecondOPT(theCase)) =>
        AnsweredAs(theCase, FirstFailingCheck(theCase))

\* responseFor has returned BADVERS for a query whose first failing
\* check, in the order of C7, gives FORMERR.
BadVersWhereFormErrIsFirst ==
    /\ returned # <<>>
    /\ returned[1].resp # <<>>
    /\ FirstFailingCheck(theCase).rcode = 1
    /\ BadVersBeforeSecondOPT(theCase)
    /\ FullRcode(returned[1].resp[1]) = 16

\* C8: a query that passes every earlier check (QR = 0, at most one OPT
\* RR and that of version 0, one Question of type TXT under the domain,
\* OPCODE QUERY, valid base32 of at least 8 bytes) and advertises less
\* than 1232 bytes, or has no OPT RR (which counts as 512), is answered
\* with FORMERR and AA = 1, with an OPT RR exactly when it has one, and
\* none of the packets of its name is enqueued.
SmallBufferGetsFormErr ==
    (received # <<>> /\ PassesHeaderChecks(theCase) /\ UnderDomain(theCase)
        /\ OpcodeOf(theCase) = 0 /\ theCase.qtype = 16 /\ HasClientID(theCase)
        /\ (OPTsOf(theCase) = <<>> \/ OPTsOf(theCase)[1].Class < 1232)) =>
        /\ AnsweredAs(theCase, [rcode |-> 1, aa |-> 1])
        /\ \A m \in Responses : OPTCount(m) = Len(OPTsOf(theCase))
        /\ returned[1].payload = <<>>
        /\ incoming = <<>>

\* A query with three packets in its name and no OPT RR at all, and
\* otherwise valid, has been answered with FORMERR, AA = 1 and no OPT RR,
\* and nothing has been enqueued.
NoOPTGotFormErr ==
    /\ lastWrite # <<>>
    /\ theCase.additional = <<>>
    /\ theCase.nd.items = fewItems
    /\ UnderDomain(theCase)
    /\ FullRcode(lastWrite[1].Msg) = 1
    /\ AAOf(lastWrite[1].Msg) = 1
    /\ lastWrite[1].Msg.Additional = <<>>
    /\ incoming = <<>>

(***************************************************************************)
(* Properties of the bundles (sendLoop), for every behaviour of Spec.      *)
(***************************************************************************)
\* The client for which the transport wrote packet p: p begins with the
\* first byte of its ClientID.
IsPacketOf(p, c) == p # <<>> /\ p[1] = c[1]

\* sendLoop has just written a response with an Answer: startQ and startP
\* are the queue of its client and nextP as they were when its record was
\* taken up, and nextP is the packet that bundle left over.
BundleWritten ==
    /\ pc = "top"
    /\ lastWrite # <<>>
    /\ lastWrite[1].Msg.Answer # <<>>

\* Client c had no outbound packet for the response just written: its
\* queue was empty when the record was taken up and is empty, and none of
\* the packets bundled or left over is a packet of c.
NoPacketAvailable(c) ==
    /\ startQ = <<>>
    /\ outgoing[c] = <<>>
    /\ ~IsPacketOf(nextP, c)
    /\ \A i \in 1..Len(Unframe(lastWrite[1].Bundle)) :
           ~IsPacketOf(Unframe(lastWrite[1].Bundle)[i], c)

\* C9, as claimed: the response to a client with no outbound packet
\* available is written within maxResponseDelay of its record being
\* taken from the channel, and its bundle is empty.
EmptyBundleForIdleClient ==
    (BundleWritten /\ NoPacketAvailable(lastWrite[1].ClientID)) =>
        /\ lastWrite[1].Waited <= maxResponseDelay
        /\ lastWrite[1].Bundle = <<>>
        /\ lastWrite[1].Msg.Answer[1].Data = <<0>>

\* C9 when no packet was left over from the previous bundle: then it is
\* as claimed.
EmptyBundleForIdleClientNoLeftover ==
    (BundleWritten /\ NoPacketAvailable(lastWrite[1].ClientID) /\ startP = <<>>) =>
        /\ lastWrite[1].Waited <= maxResponseDelay
        /\ lastWrite[1].Bundle = <<>>
        /\ lastWrite[1].Msg.Answer[1].Data = <<0>>

\* The response to client B, for which no packet was ever written,
\* carries a packet of client A, left over from the response before.
LeftoverOfOtherClientBundled ==
    /\ BundleWritten
    /\ lastWrite[1].ClientID = idB
    /\ NoPacketAvailable(idB)
    /\ IsPacketOf(startP, idA)
    /\ Unframe(lastWrite[1].Bundle) = <<startP>>

\* s is the beginning of t.
IsPrefix(s, t) == Len(s) <= Len(t) /\ s = SubSeq(t, 1, Len(s))

\* The packet left over, as a sequence of none or one.
Leftover(p) == IF p = <<>> THEN <<>> ELSE <<p>>

\* The bytes a sequence of packets takes in a bundle.
RECURSIVE BundledSize(_)
BundledSize(ps) ==
    IF ps = <<>> THEN 0 ELSE 2 + Len(Head(ps)) + BundledSize(Tail(ps))

\* The packets of the bundle just written, and those after the first.
WrittenPackets == Unframe(lastWrite[1].Bundle)

\* The number of responses written to the address of the last one.
WritesToLastAddr ==
    Cardinality({i \in 1..Len(written) : written[i].Addr = lastWrite[1].Addr})

\* C10: the bundle of a response is the packet left over from the bundle
\* before (if any) followed by the packets taken from the queue of the
\* client in the order of the queue, each behind its length in 2 bytes,
\* big-endian: what was taken (the bundled packets and the one now left
\* over) followed by what is in the queue is the queue as it was when the
\* record was taken up followed by what was written since.  When the
\* packets in the queue at that time all fit the bundle next to the
\* leftover, the one response written for the query has them all, in
\* the order of the queue.
BundleInQueueOrder ==
    BundleWritten =>
        LET taken == SubSeq(WrittenPackets, Len(Leftover(startP)) + 1,
                            Len(WrittenPackets))
        IN  /\ IsPrefix(Leftover(startP), WrittenPackets)
            /\ BundledSize(WrittenPackets) = Len(lastWrite[1].Bundle)
            /\ IsPrefix(startQ, taken \o Leftover(nextP)
                                 \o outgoing[lastWrite[1].ClientID])
            /\ BundledSize(taken) <= 930 - BundledSize(Leftover(startP))
                   \/ taken = <<>>
            /\ BundledSize(Leftover(startP) \o startQ) <= 930 =>
                   /\ IsPrefix(startQ, taken)
                   /\ WritesToLastAddr = 1

\* A response has been written whose bundle is the packet left over from
\* the bundle before followed by both packets that were in the queue of
\* the client when its record was taken up.
LeftoverThenQueueBundled ==
    /\ BundleWritten
    /\ startP # <<>>
    /\ Len(startQ) = 2
    /\ WrittenPackets = <<startP>> \o startQ
    /\ nextP = <<>>
    /\ WritesToLastAddr = 1

(***************************************************************************)
(* The order of the responses (recvLoop, ch, sendLoop).                    *)
(***************************************************************************)
\* The addresses of the calls of WriteTo, in order.
WrittenAddrs == [i \in 1..Len(written) |-> written[i].Addr]

\* The addresses of the records sendLoop holds or will receive, in the
\* order it takes them up: rec, nextRec, then the records of ch.
PendingAddrs ==
    (IF rec # <<>> THEN <<rec[1].Addr>> ELSE <<>>)
    \o (IF nextRec # <<>> THEN <<nextRec[1].Addr>> ELSE <<>>)
    \o [i \in 1..Len(ch) |-> ch[i].Addr]

\* C11: the records recvLoop put on ch are written by sendLoop in the
\* order they were put on it, a record taken into nextRec during the
\* bundling of the one before it included: the writes so far, then the
\* records sendLoop holds or has still to receive, are the records
\* accepted by ch, and a record that found ch full is not among them.
WritesInEnqueueOrder ==
    /\ accepted = WrittenAddrs \o PendingAddrs
    /\ \A i \in 1..Len(accepted) : \A j \in 1..Len(accepted) :
           accepted[i] = accepted[j] => i = j

\* The backlog is written, then the response to the first query, whose
\* bundling ended when the response to the second arrived and was kept
\* in nextRec.
NextRecAfterBacklog ==
    /\ Len(written) = chanCap
    /\ written[chanCap - 1].Addr = BacklogAddr(chanCap - 1)
    /\ written[chanCap].Addr = 1
    /\ lastWrite[1].Waited < maxResponseDelay
    /\ nextRec # <<>>
    /\ nextRec[1].Addr = 2
    /\ pc = "top"

(***************************************************************************)
(* The channel when it is full (recvLoop).                                 *)
(***************************************************************************)
\* A query that passes every check of responseFor: its payload is the
\* described items after a ClientID.
IsTunnelQuery(c) ==
    /\ ~IsResponse(c)
    /\ OpcodeOf(c) = 0
    /\ c.nq = 1
    /\ c.qtype = 16
    /\ Len(OPTsOf(c)) = 1
    /\ VersionOf(OPTsOf(c)[1]) = 0
    /\ AdvertisedSize(c) >= 1232
    /\ UnderDomain(c)
    /\ HasClientID(c)
    /\ Len(c.nd.head) = 8
    /\ c.nd.tail = <<>>

\* recvLoop reads a query while ch holds chanCap records: ch stays as it
\* is, and the packets of a tunnel query are passed to QueueIncoming.
ReadWhenFull ==
    (Len(ch) = chanCap /\ Len(received') = Len(received) + 1) =>
        /\ ch' = ch
        /\ accepted' = accepted
        /\ ~recvDone'
        /\ LET c == received'[Len(received')]
           IN  IsTunnelQuery(c) =>
                 incoming' = incoming \o ExpectedIncoming(c)

\* C12: recvLoop never blocks on ch: ch holds at most 100 records, and
\* an iteration of recvLoop that finds ch full drops the response and
\* goes on; the packets of a tunnel query are passed to QueueIncoming
\* whether its response was put on ch or not.
RecvLoopNeverBlocks ==
    /\ [](Len(ch) <= 100)
    /\ [][ReadWhenFull]_vars
    /\ [][\A c \in FullCases :
            (Len(received') = Len(received) + 1 /\ received'[Len(received')] = c
             /\ IsTunnelQuery(c))
            => incoming' = incoming \o ExpectedIncoming(c)]_vars

\* ch is full and sendLoop has not run: the response to a first query is
\* the last record of ch, the response to a second, a tunnel query, was
\* dropped, and the packets of both were passed to QueueIncoming.
DroppedButQueued ==
    /\ Len(ch) = chanCap
    /\ written = <<>>
    /\ received = <<caseA, caseA>>
    /\ ch[chanCap].Addr = 1
    /\ accepted = [k \in 1..chanCap |-> ch[k].Addr]
    /\ incoming = <<[p |-> <<10, 11, 12>>, clientID |-> idA],
                    [p |-> <<10, 11, 12>>, clientID |-> idA]>>

(***************************************************************************)
(* The framing (nextPacket, the writer of bundles of sendLoop).            *)
(***************************************************************************)
\* The error of the call that ends the reading of an input: io.EOF when
\* the input ends with an item, io.ErrUnexpectedEOF when it ends within
\* one.
LastErr(in) == IF in.cut = <<>> THEN "EOF" ELSE "UnexpectedEOF"

\* C13: nextPacket, applied again and again to a reader, returns the
\* packets of the input in order, each whole and with a nil error (the
\* packet behind a prefix 0 is empty), skips every run of padding, and
\* then returns io.EOF when the input ends at the end of an item and
\* io.ErrUnexpectedEOF when it ends within a run of padding or within a
\* packet.
NextPacketContract ==
    input.writer = "peer" =>
        LET ps == PktsOf(input.items)
        IN  /\ Len(results) <= Len(ps) + 1
            /\ \A k \in 1..Len(results) :
                  IF k <= Len(ps)
                  THEN results[k] = [p |-> ps[k], err |-> "nil"]
                  ELSE /\ results[k].err = LastErr(input)
                       /\ input.cut = <<>> => results[k].p = <<>> /\ reader = <<>>

\* The input is an empty packet, two bytes of padding and the beginning
\* of a run of padding: the calls returned the empty packet, then
\* io.ErrUnexpectedEOF.
PaddingCutShort ==
    /\ input = [writer |-> "peer", items |-> <<Pkt(<<>>), Pad(2)>>,
                cut |-> <<226, 0>>]
    /\ results = <<[p |-> <<>>, err |-> "nil"],
                   [p |-> <<>>, err |-> "UnexpectedEOF"]>>

\* The packets the calls of nextPacket returned with a nil error.
Decoded ==
    LET ok == SelectSeq(results, LAMBDA x : x.err = "nil")
    IN  [k \in 1..Len(ok) |-> ok[k].p]

\* A call of nextPacket has returned an error: the reading is over.
ReadingOver == results # <<>> /\ results[Len(results)].err # "nil"

\* C14, as claimed: the bundle sendLoop wrote for the packets ps, read
\* with nextPacket, gives exactly ps and then io.EOF.
BundleReadByNextPacket ==
    (input.writer = "sendLoop" /\ ReadingOver) =>
        /\ Decoded = PktsOf(input.items)
        /\ results[Len(results)].err = "EOF"

\* C14, amended: each of the two formats is read back by the reader of
\* that format.  Packets written behind a one-byte length, with padding
\* between them, are returned by nextPacket one by one, followed by
\* io.EOF; the bundle sendLoop writes, each packet behind its length as
\* two bytes, big-endian, is the packets ps for a reader of that format,
\* and is not ps for nextPacket unless ps is empty.
EachFormatRoundTrips ==
    /\ (input.writer = "peer" /\ input.cut = <<>> /\ ReadingOver) =>
          /\ Decoded = PktsOf(input.items)
          /\ results[Len(results)].err = "EOF"
    /\ (input.writer = "sendLoop" /\ toWrite = <<>>) =>
          /\ Unframe(payload) = PktsOf(input.items)
          /\ limit >= 0
          /\ (ReadingOver /\ PktsOf(input.items) # <<>>) =>
                Decoded # PktsOf(input.items)

\* sendLoop wrote a bundle of two packets and nextPacket read four
\* packets from it, the first and the third empty.
BundleMisread ==
    /\ input.writer = "sendLoop"
    /\ input.items = <<Pkt(<<7>>), Pkt(<<7, 8>>)>>
    /\ payload = <<0, 1, 7, 0, 2, 7, 8>>
    /\ ReadingOver
    /\ Decoded = << <<>>, <<7>>, <<>>, <<7, 8>> >>

(***************************************************************************)
(* Datagrams and errors that recvLoop skips.                               *)
(***************************************************************************)
\* A datagram recvLoop answers: a DNS message that is not a response.
Answered(c) == c.id # -1 /\ ~IsResponse(c)

\* The calls of QueueIncoming for the datagrams of a log, in order.
RECURSIVE IncomingOf(_)
IncomingOf(log) ==
    IF log = <<>> THEN <<>>
    ELSE LET c == log[Len(log)]
         IN  IncomingOf(SubSeq(log, 1, Len(log) - 1))
             \o (IF c.id # -1 /\ IsTunnelQuery(c) THEN ExpectedIncoming(c) ELSE <<>>)

\* recvLoop reads a datagram that is not a DNS message or is a DNS
\* response: nothing is put on ch or passed to QueueIncoming, and recvLoop
\* has not returned.
SkipsDatagram ==
    (Len(received') = Len(received) + 1
     /\ ~Answered(received'[Len(received')])) =>
        /\ ch' = ch
        /\ accepted' = accepted
        /\ incoming' = incoming
        /\ ~recvDone'

\* ReadFrom returns a temporary error (a fault of the socket that is not
\* a call of WriteTo): recvLoop has not returned.
SkipsTemporaryReadError ==
    (faults' = faults - 1 /\ written' = written) =>
        /\ ~recvDone'
        /\ ch' = ch
        /\ incoming' = incoming

\* C15: a datagram that fails DNS parsing, and a message with QR set, put
\* no record on ch and make no call of QueueIncoming, and recvLoop goes
\* on, as it does after a temporary error of ReadFrom; every datagram read
\* later is processed: the records put on ch are those of the answered
\* datagrams, and the calls of QueueIncoming those of the tunnel queries,
\* whatever was read before them.
RecvLoopSkips ==
    /\ [][SkipsDatagram]_vars
    /\ [][SkipsTemporaryReadError]_vars
    /\ [](accepted = SelectSeq([k \in 1..Len(received) |-> k],
                               LAMBDA k : Answered(received[k])))
    /\ [](incoming = IncomingOf(received))

\* After a temporary error of ReadFrom and a datagram that is not a DNS
\* message, a tunnel query was read: its response is the first record put
\* on ch and its packet was passed to QueueIncoming.
QueryAfterGarbage ==
    /\ faults = 0
    /\ written = <<>>
    /\ received = <<garbage, caseA>>
    /\ accepted = <<2>>
    /\ incoming = <<[p |-> <<10, 11, 12>>, clientID |-> idA]>>
    /\ ~recvDone

(***************************************************************************)
(* Errors of the socket that are not temporary.                            *)
(***************************************************************************)
\* WriteTo returns a temporary error: sendLoop goes on with the next
\* record.
SkipsTemporaryWriteError ==
    (Len(written') = Len(written) + 1
     /\ written'[Len(written')].Err = "temporary") =>
        /\ pc' = "top"
        /\ sendRet' = ""

\* C16: an error of the socket that is not temporary ends the server:
\* once recvLoop has returned, and once sendLoop has returned an error,
\* the process eventually exits; a temporary error in either loop is
\* skipped and the loop goes on.
FatalErrorEndsServer ==
    /\ recvDone ~> exited
    /\ (sendRet = "error") ~> exited
    /\ [][SkipsTemporaryWriteError]_vars
    /\ [][SkipsTemporaryReadError]_vars

\* sendLoop has returned the error of WriteTo while recvLoop goes on: it
\* has read a query since and put the response on ch, which nothing
\* receives from any more.
SendLoopGoneRecvLoopReads ==
    /\ sendRet = "error"
    /\ pc = "returned"
    /\ ~recvDone
    /\ ~exited
    /\ Len(written) = 1
    /\ written[1].Err = "permanent"
    /\ Len(received) = 2
    /\ Len(ch) = 1
    /\ ch[1].Addr = 2

(***************************************************************************)
(* The end of the loops.                                                   *)
(***************************************************************************)
\* Once recvLoop has returned nothing is put on ch any more.
ClosedChannelOnlyDrains ==
    recvDone =>
        /\ recvDone'
        /\ accepted' = accepted
        /\ Len(ch') <= Len(ch)
        /\ received' = received

\* The record sendLoop works on, and the one it has kept for later, are
\* records recvLoop put on ch: never the nil that a closed channel gives.
HoldsRealRecords ==
    /\ pc \in {"poll", "wait"} => rec # <<>> /\ rec[1].Addr \in 1..Len(received)
    /\ nextRec # <<>> => nextRec[1].Addr \in 1..Len(received)
    /\ \A i \in 1..Len(written) : written[i].Addr \in 1..Len(received)
    /\ sendRet = "nil" => recvDone /\ ch = <<>> /\ nextRec = <<>> /\ rec = <<>>

BridgeState(st) ==
    /\ st.up = "done" => st.streamClosed
    /\ st.down = "done" => st.connClosed
    /\ st.ret = "nil" =>
          /\ st.up = "done"
          /\ st.down = "done"
          /\ st.streamClosed
          /\ st.connClosed
    /\ st.dial = "failed" =>
          /\ st.up = ""
          /\ st.down = ""
          /\ st.streamClosed
          /\ st.ret = "error"

CopyDone(k, dir) ==
    IF Len(streams) < k THEN FALSE
    ELSE IF dir = "up" THEN streams[k].up = "done" ELSE streams[k].down = "done"

BridgeReturned(k) ==
    IF Len(streams) < k THEN FALSE ELSE streams[k].ret = "nil"

\* C17: in the upstream bridge a copy that terminates closes its
\* destination (the copy stream<-upstream the stream, the copy
\* upstream<-stream the TCP connection), and the other copy then terminates
\* too; handleStream returns only after both copies have returned, with the
\* stream and the upstream connection closed; when the dial fails no copy
\* is started and the stream is closed.
BridgeClosesBothWays ==
    /\ [](\A k \in 1..Len(streams) : BridgeState(streams[k]))
    /\ \A k \in 1..MaxStreams :
          /\ CopyDone(k, "up") ~> CopyDone(k, "down")
          /\ CopyDone(k, "down") ~> CopyDone(k, "up")
          /\ CopyDone(k, "up") ~> BridgeReturned(k)

\* A bridge that ended though the client never closed the stream: the
\* upstream closed the connection, the copy stream<-upstream closed the
\* stream, and that ended the copy upstream<-stream; and a stream whose
\* dial failed.
BridgeEndedByUpstream ==
    \E k, m \in 1..Len(streams) :
        /\ streams[k].ret = "nil"
        /\ streams[k].connFin
        /\ ~streams[k].streamFin
        /\ ~sessions[streams[k].sess].connClosed
        /\ streams[m].dial = "failed"

(***************************************************************************)
(* C18: errors are contained.                                              *)
(***************************************************************************)
\* A step in which acceptStreams returns for session i.
SessionEnds(i) ==
    /\ i <= Len(sessions)
    /\ sessions[i].at # "returned"
    /\ sessions'[i].at = "returned"

\* A step in which the dial of stream k fails.
DialFails(k) ==
    /\ k <= Len(streams)
    /\ streams[k].dial = ""
    /\ streams'[k].dial = "failed"

\* C18: a session whose Noise handshake, multiplexer setup or stream
\* accept fails is closed, and acceptSessions and the other sessions go on:
\* acceptSessions can accept another session.  A stream whose dial fails is
\* closed, and its session goes on: acceptStreams can accept another
\* stream.
ErrorsContained ==
    /\ [][\A i \in 1..MaxSessions : SessionEnds(i) =>
            /\ sessions'[i].connClosed
            /\ lnRet' = lnRet
            /\ \A j \in 1..Len(sessions) : j # i => sessions'[j] = sessions[j]
            /\ streams' = streams]_vars
    /\ [][\A k \in 1..MaxStreams : DialFails(k) =>
            /\ streams'[k].streamClosed
            /\ sessions' = sessions
            /\ lnRet' = lnRet
            /\ \A m \in 1..Len(streams) : m # k => streams'[m] = streams[m]]_vars
    /\ []((lnRet = "" /\ Len(sessions) < MaxSessions) => ENABLED AcceptKCP("ok"))
    /\ [](\A i \in 1..Len(sessions) :
            (sessions[i].at = "accept" /\ Len(streams) < MaxStreams)
                => ENABLED AcceptStream(i, "ok"))

\* The first session has failed and is closed, acceptSessions runs and has
\* accepted a second session; the dial of that session's first stream
\* failed, and it has accepted a second stream, whose bridge runs.
SecondSessionSecondStream ==
    /\ lnRet = ""
    /\ Len(sessions) = 2
    /\ sessions[1].at = "returned"
    /\ sessions[1].connClosed
    /\ sessions[2].at = "accept"
    /\ Len(streams) = 2
    /\ streams[1].sess = 2
    /\ streams[1].dial = "failed"
    /\ streams[1].streamClosed
    /\ streams[2].sess = 2
    /\ streams[2].up = "running"

(***************************************************************************)
(* C20: key generation leaves all the files or none.                       *)
(***************************************************************************)
\* Every file asked for is there.  (With the same name for both, the one
\* file is created twice: os.Create of line 555 truncates what line 539
\* created, and the file holds the public key alone.)
KeyFilesRemain ==
    /\ keygen.privkeyFilename # "" => fs[keygen.privkeyFilename] # "absent"
    /\ keygen.pubkeyFilename # "" => fs[keygen.pubkeyFilename] # "absent"

\* C20 as it is stated: when generateKeypair has returned an error, none
\* of the files it created in the call is there and the process has
\* exited with code 1; when it has returned nil, every file asked for is
\* there, and the exit code is 0.
KeyFilesAllOrNothing ==
    exitCode # <<>> =>
        IF keygen.err # "nil"
        THEN /\ exitCode = <<1>>
             /\ \A f \in keygen.created : fs[f] = "absent"
        ELSE /\ exitCode = <<0>>
             /\ KeyFilesRemain

\* C20, amended: when generateKeypair has returned an error the process
\* has exited with code 1 and os.Remove was called for every file created
\* in the call, so that none of them is there but those whose removal the
\* system refused; when it has returned nil, every file asked for is
\* there, nothing was removed, and the exit code is 0.
KeyFilesRemovedUnlessRefused ==
    /\ keygen.kept \subseteq keygen.created
    /\ exitCode # <<>> =>
          IF keygen.err # "nil"
          THEN /\ exitCode = <<1>>
               /\ \A f \in keygen.created :
                     /\ \E i \in 1..Len(keygen.toDelete) : keygen.toDelete[i] = f
                     /\ fs[f] = "absent" \/ f \in keygen.kept
               /\ \A f \in keygen.kept : fs[f] # "absent"
          ELSE /\ exitCode = <<0>>
               /\ keygen.kept = {}
               /\ KeyFilesRemain

\* The process has exited with code 1 after both files were created: the
\* removal of the first was refused and it is still there, the second was
\* removed.
FirstKeyFileLeftBehind ==
    /\ exitCode = <<1>>
    /\ keygen.created = FileNames
    /\ keygen.toDelete = <<"priv.key", "pub.key">>
    /\ keygen.kept = {"priv.key"}
    /\ fs["priv.key"] = "privkey"
    /\ fs["pub.key"] = "absent"

\* The process has exited with code 1 after both files were created, the
\* first holding its key: the write or the close of the second failed, and
\* both were removed.
BothKeyFilesRemoved ==
    /\ exitCode = <<1>>
    /\ keygen.created = FileNames
    /\ keygen.toDelete = <<"priv.key", "pub.key">>
    /\ \A f \in FileNames : fs[f] = "absent"

(***************************************************************************)
(* C21: the -udp option.                                                   *)
(***************************************************************************)
\* C21: in server mode the process exits with code 1 when -udp is not
\* given, and it exits with code 0 only after it has opened the UDP
\* listener.
UDPAddrRequired ==
    /\ (exitCode # <<>> /\ srv.at = "exited" /\ srv.opts.udpAddr = "") =>
           exitCode = <<1>>
    /\ (exitCode = <<0>> /\ srv.at = "exited") => srv.listening

\* main has returned, with exit code 0, after it was started with two
\* positional arguments and without -udp, and without opening a listener.
ExitZeroWithoutListener ==
    /\ srv.at = "exited"
    /\ srv.opts.nargs = 2
    /\ srv.opts.udpAddr = ""
    /\ ~srv.listening
    /\ exitCode = <<0>>

(***************************************************************************)
(* C22: the MTU and the capacity of a bundle.                              *)
(***************************************************************************)
\* C22: with packets of at most maxEncodedPayload - 2 = 928 bytes, a
\* packet is left in nextP only by a bundle that holds a packet already;
\* the packet in nextP fits an empty bundle; limit is never negative; and
\* no bundle is longer than 930 bytes.
PacketsFitBundle ==
    /\ (BundleWritten /\ nextP # <<>>) => WrittenPackets # <<>>
    /\ nextP # <<>> => ~TooLarge(nextP, maxEncodedPayload)
    /\ limit >= 0
    /\ Len(payload) <= 930
    /\ pc \in {"poll", "wait"} => limit + Len(payload) = 930
    /\ BundleWritten => Len(lastWrite[1].Bundle) <= 930

\* A packet of 928 bytes was left over by the bundle before and is the
\* whole bundle of the response just written, which it fills.
LeftoverFillsBundle ==
    /\ BundleWritten
    /\ Len(startP) = 928
    /\ WrittenPackets = <<startP>>
    /\ Len(lastWrite[1].Bundle) = 930

(***************************************************************************)
(* C23: the wait for the first packet of a bundle.                         *)
(***************************************************************************)
\* sendLoop is blocked in the inner select for a bundle that began with
\* nothing left over and an empty queue, and that is still empty.
WaitsForFirstPacket ==
    /\ pc = "wait"
    /\ startQ = <<>>
    /\ startP = <<>>
    /\ payload = <<>>

\* C23: when sendLoop waits for the first packet of a bundle, a packet
\* has been written to the queue of the client during the wait and no
\* other record has arrived, the response that ends the wait has that
\* packet in its bundle.
FirstPacketWaitedFor ==
    [][(/\ WaitsForFirstPacket
        /\ outgoing[rec[1].ClientID] # <<>>
        /\ ch = <<>>
        /\ pc' = "top")
           => IsPrefix(<<Head(outgoing[rec[1].ClientID])>>,
                       Unframe(lastWrite'[1].Bundle))]_vars

\* sendLoop has waited maxResponseDelay for the first packet of a bundle,
\* its timer has fired, and the packet written to the queue of the client
\* during the wait is still in the queue: the bundle is empty.
PacketArrivedDuringWait ==
    /\ WaitsForFirstPacket
    /\ timer = 0
    /\ waited = maxResponseDelay
    /\ ch = <<>>
    /\ outgoing[rec[1].ClientID] # <<>>

(***************************************************************************)
(* C24: the packets of a response and its client.                          *)
(***************************************************************************)
\* C24: every packet in the bundle of a response was written to the
\* outgoing queue of the client of the response's query.
PacketsStayWithClient ==
    BundleWritten =>
        \A i \in 1..Len(WrittenPackets) :
            IsPacketOf(WrittenPackets[i], lastWrite[1].ClientID)

\* The response to a query of client B has in its bundle a packet that
\* was written to the outgoing queue of client A and taken from it for the
\* response to A before, where it did not fit.
PacketOfAInResponseToB ==
    /\ BundleWritten
    /\ lastWrite[1].ClientID = idB
    /\ startP # <<>>
    /\ \E i \in 1..Len(WrittenPackets) : IsPacketOf(WrittenPackets[i], idA)
    /\ \E i \in 1..Len(written) : written[i].Addr # lastWrite[1].Addr

(***************************************************************************)
(* C25: responses built on an error path.                                  *)
(***************************************************************************)
\* The number of packets in the outgoing queues.
Queued == Len(outgoing[idA]) + Len(outgoing[idB]) + Len(outgoing[zeroClientID])

\* C25: sendLoop builds a bundle only for a response whose RCODE is
\* NOERROR; a response with another RCODE (FORMERR, NOTIMPL, NXDOMAIN,
\* BADVERS) is written without an Answer and without a wait, and no packet
\* has been taken from an outgoing queue for it.
ErrorResponseAsItIs ==
    /\ rec # <<>> => FullRcode(rec[1].Resp) = RcodeNoError
    /\ (lastWrite # <<>> /\ FullRcode(lastWrite[1].Msg) # RcodeNoError) =>
          /\ lastWrite[1].Msg.Answer = <<>>
          /\ lastWrite[1].Waited = 0
          /\ Queued = nOut
          /\ nextP = <<>>

\* A response with RCODE BADVERS has been written with an Answer whose
\* bundle is the packet that was in the outgoing queue of the all-zero
\* ClientID.
BadVersCarriesPacket ==
    /\ lastWrite # <<>>
    /\ FullRcode(lastWrite[1].Msg) = ExtendedRcodeBadVers
    /\ lastWrite[1].ClientID = zeroClientID
    /\ lastWrite[1].Msg.Answer # <<>>
    /\ Unframe(lastWrite[1].Bundle) = <<OutPacket(zeroClientID, 1, 100)>>
    /\ outgoing[zeroClientID] = <<>>

(***************************************************************************)
(* C26: no packet is lost or duplicated.                                   *)
(***************************************************************************)
\* The packets of the bundles handed to serialization so far, in order.
RECURSIVE PacketsOfLog(_)
PacketsOfLog(log) ==
    IF log = <<>> THEN <<>> ELSE Head(log).Pkts \o PacketsOfLog(Tail(log))

\* The packets sendLoop has taken from the queue of client A: those of
\* the bundles handed to serialization, those of the bundle it is
\* building, and the one in nextP.
Dequeued == PacketsOfLog(written) \o Unframe(payload) \o Leftover(nextP)

\* A step that changes a packet held in nextP.
NextPTaken == nextP # <<>> /\ nextP' # nextP

\* The packets sendLoop has taken from the queue are, each once and in
\* the order of the queue, in the bundles handed to serialization (or in
\* the one being built) or, the last of them, in nextP.
EachPacketOnce ==
    /\ Len(Dequeued \o outgoing[idA]) = nOut
    /\ \A k \in 1..Len(Dequeued) :
          Dequeued[k] = OutPacket(idA, k, Len(Dequeued[k]))
    /\ pc = "top" => payload = <<>>

\* A packet in nextP leaves it only when a response that gets an Answer
\* is taken up, and the bundle of that response begins with it.
NextPLeadsBundle ==
    NextPTaken =>
        /\ pc = "top"
        /\ pc' = "poll"
        /\ nextP' = <<>>
        /\ rec'[1].Resp.Answer # <<>>
        /\ payload' = Frame(nextP)

\* C26: no packet that sendLoop has taken from an outgoing queue is lost
\* or duplicated, and a packet in nextP stays there, whatever becomes of
\* the responses in between, until the next response with RCODE NOERROR,
\* whose bundle begins with it.
NoPacketLost ==
    /\ []EachPacketOnce
    /\ [][NextPLeadsBundle]_vars
    /\ [][NextPTaken => FullRcode(rec'[1].Resp) = RcodeNoError]_vars

\* C26 but for the kind of the response that takes the packet of nextP:
\* that is as claimed.
NoPacketLostOrDuplicated ==
    /\ []EachPacketOnce
    /\ [][NextPLeadsBundle]_vars

\* The packet of 100 bytes that the first bundle left over is the bundle
\* of the response with RCODE BADVERS that was written next.
LeftoverInBadVersResponse ==
    /\ Len(written) = 2
    /\ written[1].Pkts = <<CarryQueue[1]>>
    /\ FullRcode(lastWrite[1].Msg) = ExtendedRcodeBadVers
    /\ lastWrite[1].ClientID = zeroClientID
    /\ written[2].Pkts = <<CarryQueue[2]>>
    /\ nextP = <<>>

\* The packet of 100 bytes that the first bundle left over was in nextP
\* while an error response was handed to serialization, which failed, and
\* is the first packet of the bundle of the third response.
LeftoverSurvivedErrors ==
    /\ Len(written) = 3
    /\ written[1].Pkts = <<CarryQueue[1]>>
    /\ written[2].Pkts = <<>>
    /\ written[2].Err = "serialize"
    /\ written[3].Err = "nil"
    /\ FullRcode(lastWrite[1].Msg) = RcodeNoError
    /\ written[3].Pkts = <<CarryQueue[2], CarryQueue[3]>>

(***************************************************************************)
(* C27: every record is serialized and written once.                       *)
(***************************************************************************)
\* The calls of WriteTo among the ends of iterations.
WriteToCalls == SelectSeq(written, LAMBDA w : w.Err # "serialize")

\* C27: the records recvLoop put on ch are, in that order and each once,
\* those sendLoop has handed to serialization, the one it is working on,
\* the one in nextRec and those still on ch; each record whose
\* serialization succeeded was passed to WriteTo once; this whatever the
\* end of the records before; and a record is received into nextRec only
\* when nextRec is nil.
EachRecordOnce ==
    /\ [](/\ accepted = WrittenAddrs \o PendingAddrs
          /\ \A i, j \in 1..Len(WriteToCalls) :
                WriteToCalls[i].Addr = WriteToCalls[j].Addr => i = j
          /\ (pc = "top" /\ sendRet = "") => rec = <<>>
          /\ pc \in {"poll", "wait"} => (rec # <<>> /\ nextRec = <<>>))
    /\ [][nextRec' # nextRec => (nextRec = <<>> \/ nextRec' = <<>>)]_vars
    /\ [][(nextRec # <<>> /\ nextRec' = <<>>) =>
            /\ pc = "top"
            /\ Len(written') = Len(written) + 1 => written'[Len(written')].Addr = nextRec[1].Addr
            /\ Len(written') = Len(written) => rec' = <<[nextRec[1] EXCEPT !.Resp.Answer = AnswerFor(nextRec[1].Resp)]>>]_vars

\* The serialization of the first response has failed; the record of the
\* second query, received during the bundling of the first, is in nextRec.
NextRecAfterFailedSerialization ==
    /\ pc = "top"
    /\ sendRet = ""
    /\ Len(written) = 1
    /\ written[1].Err = "serialize"
    /\ written[1].Addr = 1
    /\ nextRec # <<>>
    /\ nextRec[1].Addr = 2

(***************************************************************************)
(* C28.  The bundling for one response terminates.                         *)
(***************************************************************************)
\* The most packets a bundle can hold: each takes 2 bytes at least.
MaxBundled == maxEncodedPayload \div 2

\* sendLoop is in the bundling loop.
Bundling == pc \in {"poll", "wait"}

\* A step of the outer select that takes a packet of the queue.
PacketPolled ==
    /\ pc = "poll"
    /\ outgoing[rec[1].ClientID] # <<>>
    /\ outgoing' # outgoing
    /\ outgoing'[rec[1].ClientID] = Tail(outgoing[rec[1].ClientID])

\* C28: the bundling for one response always terminates, also when the
\* outgoing queue of the client is refilled all the time.  While sendLoop
\* bundles, the room left is between 0 and maxEncodedPayload and the
\* bundle holds what is not left; an iteration of the bundling loop that
\* takes a packet either ends the bundling, the packet being too large, or
\* appends the packet and leaves at least 2 bytes less room; every other
\* step of sendLoop in the inner select ends the bundling; no response
\* carries more than 465 packets; and a bundling that was started leads
\* to the response being written.
BundlingTerminates ==
    /\ [](Bundling => /\ limit \in 0..maxEncodedPayload
                      /\ Len(payload) = maxEncodedPayload - limit)
    /\ [](\A i \in 1..Len(written) : Len(written[i].Pkts) <= MaxBundled)
    /\ MaxBundled = 465
    /\ [][PacketPolled =>
            \/ /\ TooLarge(Head(outgoing[rec[1].ClientID]), limit)
               /\ ~Bundling'
               /\ Len(written') = Len(written) + 1
            \/ /\ Bundling'
               /\ limit' <= limit - 2
               /\ limit' >= 0
               /\ payload' = payload \o Frame(Head(outgoing[rec[1].ClientID]))]_vars
    /\ [][(pc = "wait" /\ pc' # "wait") =>
            /\ ~Bundling'
            /\ Len(written') = Len(written) + 1
            /\ nextRec' # <<>> \/ timer = 0]_vars
    /\ \A n \in 0..Len(RefillQueries) :
            (Bundling /\ Len(written) = n) ~> (~Bundling /\ Len(written) = n + 1)

\* A response was written with 465 packets in its bundle while the queue
\* of the client had been filled again.
FullBundleWhileRefilled ==
    /\ written # <<>>
    /\ written[1].Err = "nil"
    /\ Len(written[1].Pkts) = 465
    /\ outgoing[idA] # <<>>

====
